---- MODULE Spec2Model ----
(***************************************************************************)
(* Model of the scheduling and conflict-classification engine of           *)
(* project_planner: planner.generate_plan (src/planner.py, lines 112-321). *)
(*                                                                         *)
(* One call of generate_plan is a pipeline of stages, each one an action:  *)
(*   Begin -> Normalize -> PreFilter -> SortTasks -> BuildIndex ->         *)
(*   ClassifyTask (once per task) -> PostFilter -> Return                  *)
(*                                                                         *)
(* The callers of generate_plan are modelled next to it: the pipeline      *)
(* generate_and_print_schedule -> generate_plan -> print_schedule (lines   *)
(* 541-587, 323-470), whose invocations LoadConfig, GeneratePlan and       *)
(* PrintSchedule share the module globals RESOURCE_ALIASES and             *)
(* CUSTOMER_ALIASES.                                                       *)
(*                                                                         *)
(* Dates.  A 'YYYY-MM-DD' string is modelled by its day number (1, 2, ..); *)
(* datetime.strptime maps it to the datetime at midnight of that day,      *)
(* which is modelled by the same day number.  None, an absent key and the  *)
(* empty string are all falsy in the code's tests and are modelled by      *)
(* NoDate.                                                                 *)
(***************************************************************************)
EXTENDS Integers, Sequences, FiniteSets, TLC

VARIABLES
    data,            \* argument data: [resources, customers] (the projects JSON)
    sort_by,         \* argument sort_by_fields: sequence of sort tokens
    filters,         \* argument filters: the 'filter' mapping of the config
    today,           \* datetime.now().date() during the call
    pending,         \* number of calls of generate_plan the caller still makes
    pc,              \* position inside generate_plan
    all_tasks,       \* local all_tasks (normalized, then filtered, then sorted)
    resource_index,  \* local resource_all_tasks_for_conflict_check
    final_schedule,  \* local final_schedule
    post_filtered_schedule,  \* local post_filtered_schedule
    result,          \* value returned by the last completed call
    prev_result,     \* value returned by the call before the last one
    calls,           \* number of completed calls
    RESOURCE_ALIASES,  \* module global RESOURCE_ALIASES of planner.py
    CUSTOMER_ALIASES,  \* module global CUSTOMER_ALIASES of planner.py
    invocations,     \* the running calls of generate_and_print_schedule
    fetch_pc,        \* position inside fetch_and_save_jira_issues
    jira_issues,     \* argument jira_issues of transform_jira_to_planner_format
    planner_data,    \* value returned by transform_jira_to_planner_format
    calendar_events, \* calendar_events loaded by log_work_from_calendar
    raw_issues,      \* raw_issues loaded by log_work_from_calendar
    PS_SUMMARY_FILTER,  \* local PS_SUMMARY_FILTER of log_work_from_calendar
    log_pc,          \* position inside log_work_from_calendar
    customer_tickets,   \* local customer_tickets
    event_index,     \* number of calendar events the loop has processed
    logged_count,    \* local logged_count
    skipped_count,   \* local skipped_count
    error_count,     \* local error_count
    posted           \* the requests.post calls made, in order

\* the variables of one call of generate_plan
planVars == <<data, sort_by, filters, today, pending, pc, all_tasks,
              resource_index, final_schedule, post_filtered_schedule, result,
              prev_result, calls>>

\* the variables of the calls of generate_and_print_schedule
pipelineVars == <<RESOURCE_ALIASES, CUSTOMER_ALIASES, invocations>>

\* the variables of fetch_and_save_jira_issues
fetchVars == <<fetch_pc, jira_issues, planner_data>>

\* the variables of log_work_from_calendar
calendarVars == <<calendar_events, raw_issues, PS_SUMMARY_FILTER, log_pc,
                  customer_tickets, event_index, logged_count, skipped_count,
                  error_count, posted>>

\* the variables of the other commands of main.py
commandVars == <<fetchVars, calendarVars>>

vars == <<planVars, pipelineVars, commandVars>>

\* neither transform_jira_to_planner_format nor log_work_from_calendar is
\* called
CommandsIdle ==
    /\ fetch_pc = "<not called>"
    /\ jira_issues = <<>>
    /\ planner_data = [resources |-> <<>>, customers |-> <<>>]
    /\ calendar_events = <<>>
    /\ raw_issues = <<>>
    /\ PS_SUMMARY_FILTER = "None"
    /\ log_pc = "<not called>"
    /\ customer_tickets = <<>>
    /\ event_index = 0
    /\ logged_count = 0
    /\ skipped_count = 0
    /\ error_count = 0
    /\ posted = <<>>

-----------------------------------------------------------------------------
(* Bounds of the model *)

MaxDate == 3      \* day numbers range over 1..MaxDate
MaxCalls == 2     \* generate_plan is called at most MaxCalls times
MaxTasks == 3     \* task lists of free length hold at most MaxTasks tasks
MaxVersions == 3  \* a fixVersions list holds at most MaxVersions entries

(* Program constants *)

UnknownPriority == 99   \* PRIORITY_ORDER_MAP[None]
DateTimeMax == 1000000  \* datetime.max as a day number, later than every date

-----------------------------------------------------------------------------
(* Values *)

NoDate == 0             \* None / absent / '' for a date field
Null == "None"          \* Python None in a string-valued field
Absent == "<absent>"    \* the key is missing from the dict
MissingName == <<>>     \* a task dict without the key 'name'

Dates == 1..MaxDate
OptDates == 0..MaxDate

\* dict.get(key, default): the default only when the key is missing
Get(value, default) == IF value = Absent THEN default ELSE value

\* Truthiness of a string-valued field (None and '' are falsy)
Truthy(s) == s # Null /\ s # Absent /\ s # ""

\* task['task'].split(' ')[0]: a display name is modelled as its sequence of
\* space-separated tokens; the identity key is the first token
KeyOf(name) == Head(name)

\* PRIORITY_ORDER_MAP.get(priority, PRIORITY_ORDER_MAP[None])
PRIORITY_ORDER_MAP(p) ==
    CASE p = "P0" -> 0
      [] p = "P1" -> 1
      [] p = "P2" -> 2
      [] p = "P3" -> 3
      [] OTHER -> UnknownPriority

\* fetch_jira_issues.PRIORITY_MAP, the tracker-side rank of a priority token
PRIORITY_MAP(p) ==
    CASE p \in {"P0", "Highest"} -> 0
      [] p \in {"P1", "High"} -> 1
      [] p \in {"P2", "Medium"} -> 2
      [] p \in {"P3", "Low"} -> 3
      [] p \in {"P4", "Lowest"} -> 4
      [] OTHER -> UnknownPriority

\* Lexicographic order of the strings the model uses (Python str comparison)
StrOrder == <<"CustA", "CustB", "None", "R1", "R2", "Unassigned">>

StrRank(s) == CHOOSE i \in 1..Len(StrOrder) : StrOrder[i] = s

-----------------------------------------------------------------------------
(* Normalizer: lines 117-156 *)

\* the earliest release date of the list
RECURSIVE EarliestReleaseDate(_)
EarliestReleaseDate(fix_versions) ==
    IF fix_versions = <<>> THEN NoDate
    ELSE LET rest == EarliestReleaseDate(Tail(fix_versions))
             first == Head(fix_versions).releaseDate
         IN  IF first = NoDate THEN rest
             ELSE IF rest = NoDate \/ first < rest THEN first
             ELSE rest

\* lines 123-131: release date of the first version that has one
RECURSIVE FirstReleaseDate(_)
FirstReleaseDate(fix_versions) ==
    IF fix_versions = <<>> THEN NoDate
    ELSE IF Head(fix_versions).releaseDate # NoDate
         THEN Head(fix_versions).releaseDate
         ELSE FirstReleaseDate(Tail(fix_versions))

\* lines 120-155: the task_info dict built for one task
TaskInfo(customer, packet, task) ==
    [ customer |-> customer,
      packet |-> packet,
      task |-> task.name,
      start_date |-> task.customfield_10015,
      due_date |-> task.due_date,
      status |-> Get(task.status, "Pending"),
      assignee |-> Get(task.assignee, "Unassigned"),
      task_health_status |-> Get(task.task_health_status, Null),
      issue_type |-> Get(task.issue_type, "Unknown"),
      parent_key |-> Get(task.parent_key, Null),
      priority |-> Get(task.priority, Null),
      priority_value |-> PRIORITY_ORDER_MAP(Get(task.priority, Null)),
      fix_version_date |-> FirstReleaseDate(task.fixVersions) ]

RECURSIVE FlattenTasks(_, _, _)
FlattenTasks(customer, packet, tasks) ==
    IF tasks = <<>> THEN <<>>
    ELSE <<TaskInfo(customer, packet, Head(tasks))>>
         \o FlattenTasks(customer, packet, Tail(tasks))

RECURSIVE FlattenPackets(_, _)
FlattenPackets(customer, packets) ==
    IF packets = <<>> THEN <<>>
    ELSE FlattenTasks(customer, Head(packets).name, Head(packets).tasks)
         \o FlattenPackets(customer, Tail(packets))

RECURSIVE FlattenCustomers(_)
FlattenCustomers(customers) ==
    IF customers = <<>> THEN <<>>
    ELSE FlattenPackets(Head(customers).name, Head(customers).work_packets)
         \o FlattenCustomers(Tail(customers))

\* a normalizer that reads the name with task.get('name')
NormalizeNeverRaises(customers) == FALSE

\* a normalizer that also reads task['due_date'] without a guard
NormalizeRaisesOnMissingDue(customers) ==
    \E c \in 1..Len(customers) :
        \E w \in 1..Len(customers[c].work_packets) :
            \E t \in 1..Len(customers[c].work_packets[w].tasks) :
                \/ customers[c].work_packets[w].tasks[t].name = MissingName
                \/ customers[c].work_packets[w].tasks[t].due_date = NoDate

\* line 138: task['name'] raises KeyError for a task without the key 'name'
NormalizeRaises(customers) ==
    \E c \in 1..Len(customers) :
        \E w \in 1..Len(customers[c].work_packets) :
            \E t \in 1..Len(customers[c].work_packets[w].tasks) :
                customers[c].work_packets[w].tasks[t].name = MissingName

-----------------------------------------------------------------------------
(* Filter stage: lines 158-180 *)

\* a filter that applies whenever its key is present, empty list or not
FilterSetPresent(f) == f.present

\* filters.get(key): a filter is [present, items]; an absent key gives None,
\* and None and the empty list are both falsy
FilterSet(f) == f.present /\ f.items # {}

\* lines 160-161: the parsed bound, None when the key is absent or ''
DateBound(f) == IF f.present /\ f.value # NoDate THEN f.value ELSE NoDate

\* keep_task without the customers test
KeepTaskNoCustomers(task, flt) ==
    LET from_start_date_filter == DateBound(flt.from_start_date)
        to_end_date_filter == DateBound(flt.to_end_date)
    IN  /\ ~(FilterSet(flt.resource) /\ task.assignee \notin flt.resource.items)
        /\ ~(FilterSet(flt.priority) /\ task.priority \notin flt.priority.items)
        /\ ~(FilterSet(flt.task_status) /\ task.status \notin flt.task_status.items)
        /\ ~(/\ from_start_date_filter # NoDate
             /\ task.start_date # NoDate
             /\ task.start_date < from_start_date_filter)
        /\ ~(/\ to_end_date_filter # NoDate
             /\ task.fix_version_date # NoDate
             /\ task.fix_version_date > to_end_date_filter)

\* keep_task with exclusive date bounds
KeepTaskExclusiveBounds(task, flt) ==
    LET from_start_date_filter == DateBound(flt.from_start_date)
        to_end_date_filter == DateBound(flt.to_end_date)
    IN  /\ ~(FilterSet(flt.resource) /\ task.assignee \notin flt.resource.items)
        /\ ~(FilterSet(flt.priority) /\ task.priority \notin flt.priority.items)
        /\ ~(FilterSet(flt.task_status) /\ task.status \notin flt.task_status.items)
        /\ ~(FilterSet(flt.customers) /\ task.customer \notin flt.customers.items)
        /\ ~(/\ from_start_date_filter # NoDate
             /\ task.start_date # NoDate
             /\ task.start_date <= from_start_date_filter)
        /\ ~(/\ to_end_date_filter # NoDate
             /\ task.fix_version_date # NoDate
             /\ task.fix_version_date >= to_end_date_filter)

\* lines 164-176: keep_task for one task
KeepTask(task, flt) ==
    LET from_start_date_filter == DateBound(flt.from_start_date)
        to_end_date_filter == DateBound(flt.to_end_date)
    IN  /\ ~(FilterSet(flt.resource) /\ task.assignee \notin flt.resource.items)
        /\ ~(FilterSet(flt.priority) /\ task.priority \notin flt.priority.items)
        /\ ~(FilterSet(flt.task_status) /\ task.status \notin flt.task_status.items)
        /\ ~(FilterSet(flt.customers) /\ task.customer \notin flt.customers.items)
        /\ ~(/\ from_start_date_filter # NoDate
             /\ task.start_date # NoDate
             /\ task.start_date < from_start_date_filter)
        /\ ~(/\ to_end_date_filter # NoDate
             /\ task.fix_version_date # NoDate
             /\ task.fix_version_date > to_end_date_filter)

RECURSIVE FilterTasks(_, _)
FilterTasks(tasks, flt) ==
    IF tasks = <<>> THEN <<>>
    ELSE (IF KeepTask(Head(tasks), flt) THEN <<Head(tasks)>> ELSE <<>>)
         \o FilterTasks(Tail(tasks), flt)

-----------------------------------------------------------------------------
(* Ordering stage: lines 182-199 *)

\* lines 186-195: the key component of one sort field; an unknown field adds
\* no component
SortComponent(task_item, sort_field) ==
    CASE sort_field = "start_date" ->
            <<IF task_item.start_date # NoDate THEN task_item.start_date
              ELSE DateTimeMax>>
      [] sort_field = "customer" -> <<StrRank(task_item.customer)>>
      [] sort_field = "resource" -> <<StrRank(task_item.assignee)>>
      [] sort_field = "priority" -> <<task_item.priority_value>>
      [] OTHER -> <<>>

RECURSIVE SortKeyOver(_, _)
SortKeyOver(task_item, fields) ==
    IF fields = <<>> THEN <<>>
    ELSE SortComponent(task_item, Head(fields))
         \o SortKeyOver(task_item, Tail(fields))

\* lines 183-197: get_sort_key
get_sort_key(task_item, fields) == SortKeyOver(task_item, fields)

\* Python tuple comparison a < b of two keys of the same length
RECURSIVE TupleLess(_, _)
TupleLess(a, b) ==
    IF a = <<>> \/ b = <<>> THEN FALSE
    ELSE IF Head(a) # Head(b) THEN Head(a) < Head(b)
         ELSE TupleLess(Tail(a), Tail(b))

\* insert x ahead of the elements whose key is equal (an unstable sort)
RECURSIVE InsertBeforeEqual(_, _, _)
InsertBeforeEqual(x, sorted, fields) ==
    IF sorted = <<>> THEN <<x>>
    ELSE IF ~TupleLess(get_sort_key(Head(sorted), fields), get_sort_key(x, fields))
         THEN <<x>> \o sorted
         ELSE <<Head(sorted)>> \o InsertBeforeEqual(x, Tail(sorted), fields)

\* insert x after every element whose key is not greater (stability)
RECURSIVE InsertStable(_, _, _)
InsertStable(x, sorted, fields) ==
    IF sorted = <<>> THEN <<x>>
    ELSE IF TupleLess(get_sort_key(x, fields), get_sort_key(Head(sorted), fields))
         THEN <<x>> \o sorted
         ELSE <<Head(sorted)>> \o InsertStable(x, Tail(sorted), fields)

\* line 199: all_tasks.sort(key=get_sort_key), a stable sort
RECURSIVE StableSortFrom(_, _, _)
StableSortFrom(tasks, acc, fields) ==
    IF tasks = <<>> THEN acc
    ELSE StableSortFrom(Tail(tasks), InsertStable(Head(tasks), acc, fields), fields)

StableSort(tasks, fields) == StableSortFrom(tasks, <<>>, fields)

-----------------------------------------------------------------------------
(* Interval index builder: lines 201-223 *)

Range(seq) == {seq[i] : i \in 1..Len(seq)}

\* an index that outlives the call: the lists of the previous call are kept
KeptIndex(resources) ==
    resource_index @@ [r \in Range(resources) |-> <<>>]

\* line 202: an empty interval list for every declared resource
InitialIndex(resources) == [r \in Range(resources) |-> <<>>]

\* lines 208-214: effective end date of a task, as the index builder computes it
IndexEffectiveEnd(task) ==
    IF task.fix_version_date # NoDate
       /\ (task.start_date = NoDate \/ task.fix_version_date >= task.start_date)
    THEN task.fix_version_date
    ELSE IF task.due_date # NoDate THEN task.due_date
    ELSE IF task.start_date # NoDate THEN task.start_date + 1
    ELSE NoDate

\* lines 217-223: the interval of a task
Interval(task) ==
    [ start |-> task.start_date,
      end |-> IndexEffectiveEnd(task),
      key |-> KeyOf(task.task),
      issue_type |-> task.issue_type,
      parent_key |-> task.parent_key ]

\* a first pass that stores an interval for every task with an effective end
AddToIndexUndated(idx, task) ==
    LET assigned_resource == task.assignee
        known == IF assigned_resource \in DOMAIN idx THEN idx
                 ELSE idx @@ (assigned_resource :> <<>>)
    IN  IF IndexEffectiveEnd(task) # NoDate
        THEN [known EXCEPT ![assigned_resource] = Append(@, Interval(task))]
        ELSE known

\* a first pass that stores no interval for a Completed task
AddToIndexOpenOnly(idx, task) ==
    LET assigned_resource == task.assignee
        known == IF assigned_resource \in DOMAIN idx THEN idx
                 ELSE idx @@ (assigned_resource :> <<>>)
    IN  IF /\ task.status # "Completed"
           /\ task.start_date # NoDate
           /\ IndexEffectiveEnd(task) # NoDate
        THEN [known EXCEPT ![assigned_resource] = Append(@, Interval(task))]
        ELSE known

\* lines 204-223: one iteration of the first pass
AddToIndex(idx, task) ==
    LET assigned_resource == task.assignee
        known == IF assigned_resource \in DOMAIN idx THEN idx
                 ELSE idx @@ (assigned_resource :> <<>>)
    IN  IF task.start_date # NoDate /\ IndexEffectiveEnd(task) # NoDate
        THEN [known EXCEPT ![assigned_resource] = Append(@, Interval(task))]
        ELSE known

RECURSIVE BuildIndexFrom(_, _)
BuildIndexFrom(tasks, idx) ==
    IF tasks = <<>> THEN idx
    ELSE BuildIndexFrom(Tail(tasks), AddToIndex(idx, Head(tasks)))

-----------------------------------------------------------------------------
(* Conflict and status classifier: lines 226-305 *)

\* the rule with the due date ahead of the fix-version date
TaskEffectiveEndDueFirst(task) ==
    IF task.due_date # NoDate THEN task.due_date
    ELSE IF task.fix_version_date # NoDate
            /\ (task.start_date = NoDate \/ task.fix_version_date >= task.start_date)
         THEN task.fix_version_date
    ELSE IF task.start_date # NoDate THEN task.start_date + 1
    ELSE NoDate

\* lines 234-240: effective end date of the task under test
TaskEffectiveEnd(task) ==
    IF task.fix_version_date # NoDate
       /\ (task.start_date = NoDate \/ task.fix_version_date >= task.start_date)
    THEN task.fix_version_date
    ELSE IF task.due_date # NoDate THEN task.due_date
    ELSE IF task.start_date # NoDate THEN task.start_date + 1
    ELSE NoDate

\* the overlap test with touching endpoints counted on one side only
OverlapsTouching(task, scheduled) ==
    /\ task.start_date # NoDate
    /\ TaskEffectiveEnd(task) # NoDate
    /\ scheduled.start # NoDate
    /\ scheduled.end # NoDate
    /\ task.start_date <= scheduled.end
    /\ TaskEffectiveEnd(task) > scheduled.start

\* the overlap test on closed intervals: touching endpoints overlap
OverlapsClosed(task, scheduled) ==
    /\ task.start_date # NoDate
    /\ TaskEffectiveEnd(task) # NoDate
    /\ scheduled.start # NoDate
    /\ scheduled.end # NoDate
    /\ task.start_date <= scheduled.end
    /\ TaskEffectiveEnd(task) >= scheduled.start

\* lines 258-260: both intervals are dated and overlap
Overlaps(task, scheduled) ==
    /\ task.start_date # NoDate
    /\ TaskEffectiveEnd(task) # NoDate
    /\ scheduled.start # NoDate
    /\ scheduled.end # NoDate
    /\ task.start_date < scheduled.end
    /\ TaskEffectiveEnd(task) > scheduled.start

\* suppression only when the task under test is the child
HierarchicalConditionChildOnly(task, scheduled) ==
    \/ Truthy(task.parent_key) /\ task.parent_key = scheduled.key
    \/ scheduled.issue_type = "Epic" /\ task.parent_key = scheduled.key

\* lines 262-265: hierarchical_conflict_condition
HierarchicalCondition(task, scheduled) ==
    LET current_task_key_only == KeyOf(task.task)
    IN  \/ Truthy(task.parent_key) /\ task.parent_key = scheduled.key
        \/ Truthy(scheduled.parent_key) /\ scheduled.parent_key = current_task_key_only
        \/ task.issue_type = "Epic" /\ scheduled.parent_key = current_task_key_only
        \/ scheduled.issue_type = "Epic" /\ task.parent_key = scheduled.key

\* a scan that does not skip the intervals of the task's own key
RecordsConflictWithSelf(task, scheduled) ==
    /\ Overlaps(task, scheduled)
    /\ ~HierarchicalCondition(task, scheduled)

\* lines 254-272: does the scan of one interval record a conflict
RecordsConflict(task, scheduled) ==
    /\ scheduled.key # KeyOf(task.task)
    /\ Overlaps(task, scheduled)
    /\ ~HierarchicalCondition(task, scheduled)

\* a scan that lists every key once
RECURSIVE ScanIntervalsOnce(_, _)
ScanIntervalsOnce(task, intervals) ==
    IF intervals = <<>> THEN <<>>
    ELSE LET earlier == ScanIntervalsOnce(task, SubSeq(intervals, 1, Len(intervals) - 1))
             last == intervals[Len(intervals)]
         IN  IF RecordsConflict(task, last) /\ last.key \notin Range(earlier)
             THEN Append(earlier, last.key)
             ELSE earlier

\* lines 247-272: the scan of the resource's interval list, in list order
RECURSIVE ScanIntervals(_, _)
ScanIntervals(task, intervals) ==
    IF intervals = <<>> THEN <<>>
    ELSE (IF RecordsConflict(task, Head(intervals))
          THEN <<Head(intervals).key>> ELSE <<>>)
         \o ScanIntervals(task, Tail(intervals))

\* a scan that does not skip Completed tasks
ConflictingTasksScanAll(task, idx) ==
    ScanIntervals(task, IF task.assignee \in DOMAIN idx
                        THEN idx[task.assignee] ELSE <<>>)

\* lines 229-272: conflicting_tasks_details of a task
ConflictingTasks(task, idx) ==
    IF task.status # "Completed"
    THEN ScanIntervals(task, IF task.assignee \in DOMAIN idx
                             THEN idx[task.assignee] ELSE <<>>)
    ELSE <<>>

\* the chain with the conflict test ahead of the missing-due-date test
ScheduleStatusConflictFirst(task, conflicting_tasks_details, now) ==
    IF task.status = "Completed" THEN "On Time"
    ELSE IF conflicting_tasks_details # <<>> THEN "Conflict!"
    ELSE IF task.due_date = NoDate THEN "Error"
    ELSE IF task.due_date < now THEN "Overdue"
    ELSE IF task.fix_version_date # NoDate /\ task.fix_version_date > task.due_date
         THEN "Late"
    ELSE "On Time"

\* the chain with a task due today counted as overdue
ScheduleStatusDueTodayOverdue(task, conflicting_tasks_details, now) ==
    IF task.status = "Completed" THEN "On Time"
    ELSE IF task.due_date = NoDate THEN "Error"
    ELSE IF conflicting_tasks_details # <<>> THEN "Conflict!"
    ELSE IF task.due_date <= now THEN "Overdue"
    ELSE IF task.fix_version_date # NoDate /\ task.fix_version_date > task.due_date
         THEN "Late"
    ELSE "On Time"

\* the chain with the overdue test ahead of the conflict test
ScheduleStatusOverdueFirst(task, conflicting_tasks_details, now) ==
    IF task.status = "Completed" THEN "On Time"
    ELSE IF task.due_date = NoDate THEN "Error"
    ELSE IF task.due_date < now THEN "Overdue"
    ELSE IF conflicting_tasks_details # <<>> THEN "Conflict!"
    ELSE IF task.fix_version_date # NoDate /\ task.fix_version_date > task.due_date
         THEN "Late"
    ELSE "On Time"

\* lines 228, 232, 275-285: schedule_status of a task
ScheduleStatus(task, conflicting_tasks_details, now) ==
    IF task.status = "Completed" THEN "On Time"
    ELSE IF task.due_date = NoDate THEN "Error"
    ELSE IF conflicting_tasks_details # <<>> THEN "Conflict!"
    ELSE IF task.due_date < now THEN "Overdue"
    ELSE IF task.fix_version_date # NoDate /\ task.fix_version_date > task.due_date
         THEN "Late"
    ELSE "On Time"

\* lines 287-305: the schedule entry of a task
ScheduleEntry(task, idx, now) ==
    [ resource |-> task.assignee,
      customer |-> task.customer,
      task |-> task.task,
      start_date |-> task.start_date,
      due_date |-> task.due_date,
      task_status |-> task.status,
      schedule_status |-> ScheduleStatus(task, ConflictingTasks(task, idx), now),
      task_health_status |-> task.task_health_status,
      conflicting_tasks |-> ConflictingTasks(task, idx),
      issue_type |-> task.issue_type,
      priority |-> task.priority,
      fix_version_date |-> task.fix_version_date ]

-----------------------------------------------------------------------------
(* Post-filter stage: lines 307-321 *)

\* the token is looked up in the value, as with `token in filters['conflict']`
ConflictIsLoose(f, token) == f.present /\ token \in Range(f.items)

\* filters.get('conflict') == [token]: the value is a list holding that token
ConflictIs(f, token) == f.present /\ f.kind = "list" /\ f.items = <<token>>

\* lines 310-316: keep_entry for one entry
KeepEntry(entry, flt) ==
    /\ ~(FilterSet(flt.schedule_status)
         /\ entry.schedule_status \notin flt.schedule_status.items)
    /\ ~(ConflictIs(flt.conflict, "True") /\ entry.conflicting_tasks = <<>>)
    /\ ~(ConflictIs(flt.conflict, "False") /\ entry.conflicting_tasks # <<>>)

\* a post-filter that puts every kept entry ahead of the ones kept before it
RECURSIVE FilterEntriesNewestFirst(_, _)
FilterEntriesNewestFirst(entries, flt) ==
    IF entries = <<>> THEN <<>>
    ELSE FilterEntriesNewestFirst(Tail(entries), flt)
         \o (IF KeepEntry(Head(entries), flt) THEN <<Head(entries)>> ELSE <<>>)
RECURSIVE FilterEntries(_, _)
FilterEntries(entries, flt) ==
    IF entries = <<>> THEN <<>>
    ELSE (IF KeepEntry(Head(entries), flt) THEN <<Head(entries)>> ELSE <<>>)
         \o FilterEntries(Tail(entries), flt)

-----------------------------------------------------------------------------
(* The call of generate_plan, stage by stage *)

\* line 112: the caller enters generate_plan; lines 114-116 set up the locals
Begin ==
    /\ pc \in {"idle", "done"}
    /\ pending > 0
    /\ pending' = pending - 1
    /\ all_tasks' = <<>>
    /\ pc' = "normalize"
    /\ UNCHANGED <<data, sort_by, filters, today, resource_index,
                   final_schedule, post_filtered_schedule, result,
                   prev_result, calls>>
    /\ UNCHANGED <<pipelineVars, commandVars>>

\* lines 117-156: the normalizer loop; a KeyError leaves generate_plan at
\* once, with no value returned and the locals gone
Normalize ==
    /\ pc = "normalize"
    /\ IF NormalizeRaises(data.customers)
       THEN /\ all_tasks' = <<>>
            /\ pc' = "raised"
       ELSE /\ all_tasks' = FlattenCustomers(data.customers)
            /\ pc' = "filter"
    /\ UNCHANGED <<data, sort_by, filters, today, pending, resource_index,
                   final_schedule, post_filtered_schedule, result,
                   prev_result, calls>>
    /\ UNCHANGED <<pipelineVars, commandVars>>

\* lines 158-180
PreFilter ==
    /\ pc = "filter"
    /\ all_tasks' = FilterTasks(all_tasks, filters)
    /\ pc' = "sort"
    /\ UNCHANGED <<data, sort_by, filters, today, pending, resource_index,
                   final_schedule, post_filtered_schedule, result,
                   prev_result, calls>>
    /\ UNCHANGED <<pipelineVars, commandVars>>

\* lines 182-199
SortTasks ==
    /\ pc = "sort"
    /\ all_tasks' = StableSort(all_tasks, sort_by)
    /\ pc' = "index"
    /\ UNCHANGED <<data, sort_by, filters, today, pending, resource_index,
                   final_schedule, post_filtered_schedule, result,
                   prev_result, calls>>
    /\ UNCHANGED <<pipelineVars, commandVars>>

\* a first pass that declares the missing resources in data['resources']
\* instead of in the local index
BuildIndexDeclaring ==
    /\ pc = "index"
    /\ data' = [data EXCEPT !.resources =
                  @ \o SelectSeq([i \in 1..Len(all_tasks) |-> all_tasks[i].assignee],
                                 LAMBDA r : r \notin Range(data.resources))]
    /\ resource_index' = BuildIndexFrom(all_tasks, InitialIndex(data.resources))
    /\ final_schedule' = <<>>
    /\ pc' = "classify"
    /\ UNCHANGED <<sort_by, filters, today, pending, all_tasks,
                   post_filtered_schedule, result, prev_result, calls>>
    /\ UNCHANGED <<pipelineVars, commandVars>>

\* a first pass over every task of the input, filtered out or not
BuildIndexUnfiltered ==
    /\ pc = "index"
    /\ resource_index' = BuildIndexFrom(FlattenCustomers(data.customers),
                                        InitialIndex(data.resources))
    /\ final_schedule' = <<>>
    /\ pc' = "classify"
    /\ UNCHANGED <<data, sort_by, filters, today, pending, all_tasks,
                   post_filtered_schedule, result, prev_result, calls>>
    /\ UNCHANGED <<pipelineVars, commandVars>>

\* lines 201-225: the first pass, then final_schedule = []
BuildIndex ==
    /\ pc = "index"
    /\ resource_index' = BuildIndexFrom(all_tasks, InitialIndex(data.resources))
    /\ final_schedule' = <<>>
    /\ pc' = "classify"
    /\ UNCHANGED <<data, sort_by, filters, today, pending, all_tasks,
                   post_filtered_schedule, result, prev_result, calls>>
    /\ UNCHANGED <<pipelineVars, commandVars>>

\* lines 226-305: one iteration of the second pass
ClassifyTask ==
    /\ pc = "classify"
    /\ Len(final_schedule) < Len(all_tasks)
    /\ final_schedule' =
         Append(final_schedule,
                ScheduleEntry(all_tasks[Len(final_schedule) + 1],
                              resource_index, today))
    /\ UNCHANGED <<data, sort_by, filters, today, pending, pc, all_tasks,
                   resource_index, post_filtered_schedule, result,
                   prev_result, calls>>
    /\ UNCHANGED <<pipelineVars, commandVars>>

\* lines 307-319: once the second pass is over, build post_filtered_schedule
PostFilter ==
    /\ pc = "classify"
    /\ Len(final_schedule) = Len(all_tasks)
    /\ post_filtered_schedule' = FilterEntries(final_schedule, filters)
    /\ pc' = "return"
    /\ UNCHANGED <<data, sort_by, filters, today, pending, all_tasks,
                   resource_index, final_schedule, result, prev_result, calls>>
    /\ UNCHANGED <<pipelineVars, commandVars>>

\* line 321: return post_filtered_schedule
Return ==
    /\ pc = "return"
    /\ result' = post_filtered_schedule
    /\ prev_result' = result
    /\ calls' = calls + 1
    /\ pc' = "done"
    /\ UNCHANGED <<data, sort_by, filters, today, pending, all_tasks,
                   resource_index, final_schedule, post_filtered_schedule>>
    /\ UNCHANGED <<pipelineVars, commandVars>>

Next ==
    \/ Begin
    \/ Normalize
    \/ PreFilter
    \/ SortTasks
    \/ BuildIndex
    \/ ClassifyTask
    \/ PostFilter
    \/ Return

-----------------------------------------------------------------------------
(* The pipeline generate_and_print_schedule -> generate_plan ->
   print_schedule: lines 541-587 and 323-470 *)

\* lines 112-321: the list one call of generate_plan returns
generate_plan(plan_data, sort_by_fields, flt, now) ==
    LET tasks == StableSort(FilterTasks(FlattenCustomers(plan_data.customers), flt),
                            sort_by_fields)
        idx == BuildIndexFrom(tasks, InitialIndex(plan_data.resources))
    IN  FilterEntries([i \in 1..Len(tasks) |-> ScheduleEntry(tasks[i], idx, now)],
                      flt)

\* lines 573-577: the start date and the fix versions of a task are replaced
\* by the raw issue's, or by None and [] when no raw issue has the task's key
EnrichTask(task, raw_jira_issues) ==
    LET task_key == KeyOf(task.name)
    IN  IF task_key \in DOMAIN raw_jira_issues
        THEN [task EXCEPT
                !.customfield_10015 = raw_jira_issues[task_key].customfield_10015,
                !.fixVersions = raw_jira_issues[task_key].fixVersions]
        ELSE [task EXCEPT !.customfield_10015 = NoDate, !.fixVersions = <<>>]

\* lines 570-577: every task of project_data is enriched
EnrichData(project_data, raw_jira_issues) ==
    LET EnrichPacket(packet) ==
            [packet EXCEPT !.tasks =
                [i \in 1..Len(packet.tasks) |->
                    EnrichTask(packet.tasks[i], raw_jira_issues)]]
        EnrichCustomer(customer) ==
            [customer EXCEPT !.work_packets =
                [i \in 1..Len(customer.work_packets) |->
                    EnrichPacket(customer.work_packets[i])]]
    IN  [project_data EXCEPT !.customers =
            [i \in 1..Len(project_data.customers) |->
                EnrichCustomer(project_data.customers[i])]]

\* aliases.get(name, name)
AliasOf(aliases, name) == IF name \in DOMAIN aliases THEN aliases[name] ELSE name

\* lines 443-470: the row print_schedule prints for one entry
PrintedRow(entry, resource_aliases, customer_aliases) ==
    [ resource |-> AliasOf(resource_aliases, entry.resource),
      customer |-> AliasOf(customer_aliases, entry.customer),
      task |-> entry.task,
      schedule_status |-> entry.schedule_status,
      conflicts |-> entry.conflicting_tasks ]

\* x.upper(), for the issue types the model uses
Upper(x) ==
    CASE x = "Code" -> "CODE"
      [] x = "Bug" -> "BUG"
      [] x \in {"Task", "task"} -> "TASK"
      [] x = "Epic" -> "EPIC"
      [] x = "Story" -> "STORY"
      [] x = "Spike" -> "SPIKE"
      [] x = "Unknown" -> "UNKNOWN"
      [] OTHER -> x

\* line 403
issue_type_order == <<"CODE", "BUG", "TASK", "EPIC">>

\* line 421: the labels stand for the source's strings, which start with a
\* coloured ball
health_status_order == <<"On Track", "At Risk", "Off Track", "Postponed">>

\* order.index(x) if x in order else len(order)
OrderIndex(order, x) ==
    IF \E k \in 1..Len(order) : order[k] = x
    THEN (CHOOSE k \in 1..Len(order) : order[k] = x) - 1
    ELSE Len(order)

\* a rank that looks the issue type up as it is written
IssueTypeRankCaseSensitive(x) == OrderIndex(issue_type_order, x)

\* line 409: the sort key of an issue type
IssueTypeRank(x) == OrderIndex(issue_type_order, Upper(x))

\* line 422: the sort key of a health-status label
HealthStatusRank(x) == OrderIndex(health_status_order, x)

\* lines 391-392: the group keys of an entry
IssueTypeOf(entry) ==
    IF Truthy(entry.issue_type) THEN entry.issue_type ELSE "Unknown"

HealthStatusOf(entry) ==
    IF Truthy(entry.task_health_status) THEN entry.task_health_status
    ELSE "Unknown"

\* the keys of a dict filled in the order of the values: each value once, in
\* first-seen order
RECURSIVE FirstSeen(_)
FirstSeen(values) ==
    IF values = <<>> THEN <<>>
    ELSE LET earlier == FirstSeen(SubSeq(values, 1, Len(values) - 1))
             last == values[Len(values)]
         IN  IF last \in Range(earlier) THEN earlier ELSE Append(earlier, last)

\* sorted(keys, key=rank), a stable sort of [key, rank] pairs
RECURSIVE InsertByRank(_, _)
InsertByRank(x, sorted) ==
    IF sorted = <<>> THEN <<x>>
    ELSE IF x.rank < Head(sorted).rank THEN <<x>> \o sorted
         ELSE <<Head(sorted)>> \o InsertByRank(x, Tail(sorted))

RECURSIVE SortedByRank(_)
SortedByRank(ranked) ==
    IF ranked = <<>> THEN <<>>
    ELSE InsertByRank(ranked[Len(ranked)],
                      SortedByRank(SubSeq(ranked, 1, Len(ranked) - 1)))

\* lines 406-409: sorted_issue_types
SortedIssueTypes(schedule) ==
    LET all_issue_types ==
            FirstSeen([k \in 1..Len(schedule) |-> IssueTypeOf(schedule[k])])
        ranked == SortedByRank([k \in 1..Len(all_issue_types) |->
                                   [key |-> all_issue_types[k],
                                    rank |-> IssueTypeRank(all_issue_types[k])]])
    IN  [k \in 1..Len(ranked) |-> ranked[k].key]

\* lines 389-398, 422: the health groups of one issue type, in print order
HealthGroups(schedule, issue_type) ==
    LET mine == SelectSeq(schedule, LAMBDA e : IssueTypeOf(e) = issue_type)
        labels == FirstSeen([k \in 1..Len(mine) |-> HealthStatusOf(mine[k])])
        ranked == SortedByRank([k \in 1..Len(labels) |->
                                   [key |-> labels[k],
                                    rank |-> HealthStatusRank(labels[k])]])
    IN  [k \in 1..Len(ranked) |->
            [ issue_type |-> issue_type,
              health_status |-> ranked[k].key,
              tasks |-> SelectSeq(mine, LAMBDA e : HealthStatusOf(e) = ranked[k].key) ]]

\* lines 388-424: the groups of the schedule, in print order
RECURSIVE GroupsOf(_, _)
GroupsOf(schedule, issue_types) ==
    IF issue_types = <<>> THEN <<>>
    ELSE HealthGroups(schedule, Head(issue_types))
         \o GroupsOf(schedule, Tail(issue_types))

GroupedSchedule(schedule) == GroupsOf(schedule, SortedIssueTypes(schedule))

\* lines 323-470: what print_schedule prints, under the alias mappings it
\* finds in the module globals: for every group, in order, its two headers
\* and the rows of its entries
print_schedule(schedule, resource_aliases, customer_aliases) ==
    LET groups == GroupedSchedule(schedule)
    IN  [g \in 1..Len(groups) |->
            [ issue_type |-> Upper(groups[g].issue_type),
              health_status |-> groups[g].health_status,
              rows |-> [k \in 1..Len(groups[g].tasks) |->
                          PrintedRow(groups[g].tasks[k], resource_aliases,
                                     customer_aliases)] ]]

\* lines 545-556: the configuration is loaded and the aliases are stored in
\* the module globals
LoadConfig(p) ==
    /\ invocations[p].pc = "start"
    /\ RESOURCE_ALIASES' = invocations[p].CONFIG.resource_aliases
    /\ CUSTOMER_ALIASES' = invocations[p].CONFIG.customer_aliases
    /\ invocations' = [invocations EXCEPT ![p].pc = "loaded"]
    /\ UNCHANGED <<planVars, commandVars>>

\* lines 558-587: the data files are loaded, the tasks enriched, and
\* generate_plan is called on the invocation's own arguments; the KeyError of
\* a task without name (lines 573, 138) is caught and the process exits
GeneratePlan(p) ==
    /\ invocations[p].pc = "loaded"
    /\ invocations' =
         IF NormalizeRaises(invocations[p].project_data.customers)
         THEN [invocations EXCEPT ![p].pc = "exited"]
         ELSE [invocations EXCEPT
                 ![p].project_schedule =
                     generate_plan(EnrichData(invocations[p].project_data,
                                              invocations[p].raw_jira_issues),
                                   invocations[p].CONFIG.sort_by,
                                   invocations[p].CONFIG.filter,
                                   invocations[p].now),
                 ![p].pc = "planned"]
    /\ UNCHANGED <<planVars, RESOURCE_ALIASES, CUSTOMER_ALIASES, commandVars>>

\* line 580: print_schedule(project_schedule)
PrintSchedule(p) ==
    /\ invocations[p].pc = "planned"
    /\ invocations' =
         [invocations EXCEPT
            ![p].printed = print_schedule(invocations[p].project_schedule,
                                          RESOURCE_ALIASES, CUSTOMER_ALIASES),
            ![p].pc = "finished"]
    /\ UNCHANGED <<planVars, RESOURCE_ALIASES, CUSTOMER_ALIASES, commandVars>>

NextPipeline ==
    \/ \E p \in DOMAIN invocations : LoadConfig(p)
    \/ \E p \in DOMAIN invocations : GeneratePlan(p)
    \/ \E p \in DOMAIN invocations : PrintSchedule(p)

-----------------------------------------------------------------------------
(* Inputs *)

\* a fixVersions list with the given release dates, in list order
Versions(release_dates) ==
    [i \in 1..Len(release_dates) |->
        [name |-> "v", releaseDate |-> release_dates[i]]]

\* the customers of the projects JSON as transform_jira_to_planner_format
\* (src/fetch_jira_issues.py) lays them out: one customer per name, each with
\* the single work packet "Jira Issues" that holds its tasks in issue order
CustomerNames == <<"CustA", "CustB">>

TasksOf(placed, customer) ==
    LET mine == SelectSeq(placed, LAMBDA p : p.customer = customer)
    IN  [i \in 1..Len(mine) |-> mine[i].task]

CustomerEntry(placed, customer) ==
    [ name |-> customer,
      work_packets |-> <<[name |-> "Jira Issues",
                         tasks |-> TasksOf(placed, customer)]>> ]

MkCustomers(placed) ==
    LET named == SelectSeq(CustomerNames,
                           LAMBDA c : \E i \in 1..Len(placed) : placed[i].customer = c)
    IN  [i \in 1..Len(named) |-> CustomerEntry(placed, named[i])]

\* filter values
NoSet == [present |-> FALSE, items |-> {}]
NoBound == [present |-> FALSE, value |-> NoDate]
NoConflictFilter == [present |-> FALSE, kind |-> "list", items |-> <<>>]
AllowList(items) == [present |-> TRUE, items |-> items]
Bound(value) == [present |-> TRUE, value |-> value]

NoFilters ==
    [ resource |-> NoSet, priority |-> NoSet, task_status |-> NoSet,
      customers |-> NoSet, from_start_date |-> NoBound, to_end_date |-> NoBound,
      schedule_status |-> NoSet, conflict |-> NoConflictFilter ]

\* no index exists yet
NoIndex == [r \in {} |-> <<>>]

\* an alias mapping without entries: {}
NoAliases == [n \in {} |-> ""]

\* the state before the first call: the arguments are drawn from the given
\* sets, the locals do not exist yet; generate_plan is called directly, no
\* call of generate_and_print_schedule is running
InitOver(Placements, Resources, SortBys, Filters, Todays, Calls) ==
    /\ \E placed \in Placements, resources \in Resources :
          data = [resources |-> resources, customers |-> MkCustomers(placed)]
    /\ sort_by \in SortBys
    /\ filters \in Filters
    /\ today \in Todays
    /\ pending \in Calls
    /\ pc = "idle"
    /\ all_tasks = <<>>
    /\ resource_index = NoIndex
    /\ final_schedule = <<>>
    /\ post_filtered_schedule = <<>>
    /\ result = <<>>
    /\ prev_result = <<>>
    /\ calls = 0
    /\ RESOURCE_ALIASES = NoAliases
    /\ CUSTOMER_ALIASES = NoAliases
    /\ invocations = <<>>
    /\ CommandsIdle

\* tasks with every field fixed but the ones given
PlainTask(key) ==
    [ name |-> <<key, "title">>, customfield_10015 |-> NoDate,
      fixVersions |-> <<>>, due_date |-> NoDate, status |-> "In Progress",
      assignee |-> "R1", task_health_status |-> Null, issue_type |-> "Task",
      parent_key |-> Null, priority |-> Null ]

\* Spec: two tasks; the first with every combination of start date, due date,
\* fix-version release date and status, the second with every combination of
\* start date, due date and status, on the same resource or on another one
DatedTasks(key, Starts, Dues, Releases, Statuses) ==
    { [PlainTask(key) EXCEPT !.customfield_10015 = s, !.due_date = d,
                             !.fixVersions = f, !.status = st] :
        s \in Starts, d \in Dues, f \in Releases, st \in Statuses }

OneRelease == {<<>>} \cup {Versions(<<d>>) : d \in Dates}

StatusPlacements ==
    { << [customer |-> "CustA", task |-> t1],
         [customer |-> "CustA", task |-> [t2 EXCEPT !.assignee = r]] >> :
        t1 \in DatedTasks("K1", OptDates, OptDates, OneRelease,
                          {"Completed", "In Progress"}),
        t2 \in DatedTasks("K2", OptDates, OptDates, {<<>>},
                          {"Completed", "In Progress"}),
        r \in {"R1", "R2"} }

Init ==
    InitOver(StatusPlacements, {<<"R1">>}, {<<"start_date">>}, {NoFilters},
             Dates, {1})

Spec == Init /\ [][Next]_vars

\* SpecConflict: two tasks, each with every combination of start date, due
\* date, status, issue type and parent key (none, or the other task's key);
\* the first with or without a fix version released on day 1, the second on
\* the same resource or on another one
RelatedTasks(key, other, Releases, Assignees) ==
    { [t EXCEPT !.issue_type = ty, !.parent_key = pk, !.assignee = r] :
        t \in DatedTasks(key, OptDates, OptDates, Releases,
                         {"Completed", "In Progress"}),
        ty \in {"Epic", "Task"}, pk \in {Null, other}, r \in Assignees }

ConflictPlacements ==
    { << [customer |-> "CustA", task |-> t1], [customer |-> "CustB", task |-> t2] >> :
        t1 \in RelatedTasks("K1", "K2", {<<>>, Versions(<<1>>)}, {"R1"}),
        t2 \in RelatedTasks("K2", "K1", {<<>>}, {"R1", "R2"}) }

InitConflict ==
    InitOver(ConflictPlacements, {<<"R1">>}, {<<"start_date">>}, {NoFilters},
             {1}, {1})

SpecConflict == InitConflict /\ [][Next]_vars

\* SpecIdem: the caller calls generate_plan MaxCalls times on the same
\* arguments; two tasks of one resource with every combination of start date,
\* due date and status, under several sort orders and filters
RepeatPlacements ==
    { << [customer |-> "CustB", task |-> t1], [customer |-> "CustA", task |-> t2] >> :
        t1 \in DatedTasks("K1", OptDates, OptDates, {<<>>},
                          {"Completed", "In Progress"}),
        t2 \in DatedTasks("K2", OptDates, OptDates, {<<>>},
                          {"Completed", "In Progress"}) }

RepeatFilters ==
    { NoFilters,
      [NoFilters EXCEPT !.conflict = [present |-> TRUE, kind |-> "list",
                                      items |-> <<"True">>]],
      [NoFilters EXCEPT !.schedule_status = AllowList({"Conflict!", "Error"})] }

InitIdem ==
    InitOver(RepeatPlacements, {<<"R1">>},
             {<<"start_date">>, <<"customer", "start_date">>, <<>>},
             RepeatFilters, {2}, {MaxCalls})

SpecIdem == InitIdem /\ [][Next]_vars

\* SpecSort: one to MaxTasks undated tasks of one resource, each with any of
\* the priority tokens, under several sort orders
KeyNames == <<"K1", "K2", "K3", "K4", "K5", "K6">>

PriorityTokens == {Null, "P0", "P3", "P4", "Highest", "Lowest", "Blocker"}

PriorityPlacements ==
    UNION { { [i \in 1..n |->
                 [customer |-> "CustA",
                  task |-> [PlainTask(KeyNames[i]) EXCEPT !.priority = prio[i]]]] :
              prio \in [1..n -> PriorityTokens] } : n \in 1..MaxTasks }

InitSort ==
    InitOver(PriorityPlacements, {<<"R1">>},
             {<<"priority">>, <<"start_date", "priority">>, <<"customer">>},
             {NoFilters}, {1}, {1})

SpecSort == InitSort /\ [][Next]_vars

\* SpecPost: the two tasks of SpecIdem, one call, under every modelled value
\* of filters['conflict'] (absent, a list of tokens, a bare string), with and
\* without a schedule_status allow-list
ConflictList(items) == [present |-> TRUE, kind |-> "list", items |-> items]
ConflictString(token) == [present |-> TRUE, kind |-> "str", items |-> <<token>>]

ConflictValues ==
    { NoConflictFilter, ConflictList(<<"True">>), ConflictList(<<"False">>),
      ConflictList(<<"true">>), ConflictList(<<"True", "False">>),
      ConflictList(<<>>), ConflictString("True"), ConflictString("False") }

PostFilters ==
    { [NoFilters EXCEPT !.conflict = c, !.schedule_status = a] :
        c \in ConflictValues,
        a \in {NoSet, AllowList({"Conflict!", "On Time"})} }

InitPost ==
    InitOver(RepeatPlacements, {<<"R1">>}, {<<"start_date">>}, PostFilters,
             {2}, {1})

SpecPost == InitPost /\ [][Next]_vars

\* SpecFilter: a task with every combination of assignee, priority, status,
\* customer, start date and fix-version release date next to a plain task,
\* under every combination of the four allow-lists (absent, empty, one value)
\* and of the two date bounds (absent, day 2)
FilterPlacements ==
    { << [customer |-> c, task |-> [t EXCEPT !.assignee = r, !.priority = p]],
         [customer |-> "CustA", task |-> PlainTask("K2")] >> :
        t \in DatedTasks("K1", OptDates, {NoDate}, OneRelease,
                         {"Completed", "In Progress"}),
        c \in {"CustA", "CustB"}, r \in {"R1", "R2"}, p \in {"P0", Null} }

AllowLists(value) == {NoSet, AllowList({}), AllowList({value})}

PreFilters ==
    { [NoFilters EXCEPT !.resource = r, !.priority = p, !.task_status = s,
                        !.customers = c, !.from_start_date = f,
                        !.to_end_date = t] :
        r \in AllowLists("R1"), p \in AllowLists("P0"),
        s \in AllowLists("In Progress"), c \in AllowLists("CustA"),
        f \in {NoBound, Bound(2)}, t \in {NoBound, Bound(2)} }

InitFilter ==
    InitOver(FilterPlacements, {<<"R1">>}, {<<"start_date">>}, PreFilters,
             {1}, {1})

SpecFilter == InitFilter /\ [][Next]_vars

\* SpecDates: two tasks with every combination of start date and fix-version
\* release date, the first also with every due date, under every combination
\* of the two date bounds (absent, the empty string, a day)
DatePlacements ==
    { << [customer |-> "CustA", task |-> t1], [customer |-> "CustA", task |-> t2] >> :
        t1 \in DatedTasks("K1", OptDates, OptDates, OneRelease, {"In Progress"}),
        t2 \in DatedTasks("K2", OptDates, {NoDate}, OneRelease, {"In Progress"}) }

DateBounds == {NoBound} \cup {Bound(d) : d \in OptDates}

DateFilters ==
    { [NoFilters EXCEPT !.from_start_date = f, !.to_end_date = t] :
        f \in DateBounds, t \in DateBounds }

InitDates ==
    InitOver(DatePlacements, {<<"R1">>}, {<<"start_date">>}, DateFilters,
             {1}, {1})

SpecDates == InitDates /\ [][Next]_vars

\* SpecStages: two tasks of two customers, each with every combination of
\* start date, due date and status, the second on the same resource or on
\* another one, under a task_status allow-list, a schedule_status allow-list
\* and a conflict filter (each absent or set), sorted by start date or not at
\* all
StagePlacements ==
    { << [customer |-> "CustA", task |-> t1],
         [customer |-> "CustB", task |-> [t2 EXCEPT !.assignee = r]] >> :
        t1 \in DatedTasks("K1", OptDates, OptDates, {<<>>},
                          {"Completed", "In Progress"}),
        t2 \in DatedTasks("K2", OptDates, OptDates, {<<>>},
                          {"Completed", "In Progress"}),
        r \in {"R1", "R2"} }

StageFilters ==
    { [NoFilters EXCEPT !.task_status = s, !.schedule_status = a,
                        !.conflict = c] :
        s \in {NoSet, AllowList({"In Progress"})},
        a \in {NoSet, AllowList({"Conflict!", "Error"})},
        c \in {NoConflictFilter, ConflictList(<<"True">>),
               ConflictList(<<"False">>)} }

InitStages ==
    InitOver(StagePlacements, {<<"R1">>}, {<<"start_date">>, <<>>},
             StageFilters, {2}, {1})

SpecStages == InitStages /\ [][Next]_vars

\* SpecMalformed: two tasks, each with any start date and due date and each
\* with or without the key 'name', with and without a task_status allow-list
\* that no task passes
NamedOrNot(tasks) == tasks \cup {[t EXCEPT !.name = MissingName] : t \in tasks}

MalformedPlacements ==
    { << [customer |-> "CustA", task |-> t1], [customer |-> "CustB", task |-> t2] >> :
        t1 \in NamedOrNot(DatedTasks("K1", OptDates, OptDates, {<<>>},
                                     {"In Progress"})),
        t2 \in NamedOrNot(DatedTasks("K2", OptDates, OptDates, {<<>>},
                                     {"In Progress"})) }

InitMalformed ==
    InitOver(MalformedPlacements, {<<"R1">>}, {<<"start_date">>},
             {NoFilters, [NoFilters EXCEPT !.task_status = AllowList({"Completed"})]},
             {2}, {1})

SpecMalformed == InitMalformed /\ [][Next]_vars

\* SpecOptional: a task with every combination of start date, due date,
\* fixVersions (none, a version without release date, a released version),
\* priority (null, absent, unrecognized, recognized) and status, next to a
\* task with any priority, with or without a start date; sorted by priority
\* or by start date
OptionalPriorities == {Null, Absent, "Blocker", "P1"}

OptionalReleases == {<<>>, Versions(<<NoDate>>), Versions(<<2>>)}

OptionalPlacements ==
    { << [customer |-> "CustA", task |-> [t1 EXCEPT !.priority = p1]],
         [customer |-> "CustA", task |-> [t2 EXCEPT !.priority = p2]] >> :
        t1 \in DatedTasks("K1", OptDates, OptDates, OptionalReleases,
                          {"Completed", "In Progress"}),
        t2 \in DatedTasks("K2", {NoDate, 1}, {NoDate}, {<<>>}, {"In Progress"}),
        p1 \in OptionalPriorities, p2 \in OptionalPriorities }

InitOptional ==
    InitOver(OptionalPlacements, {<<"R1">>},
             {<<"priority">>, <<"start_date", "priority">>}, {NoFilters},
             {2}, {1})

SpecOptional == InitOptional /\ [][Next]_vars

\* SpecOrder: three tasks, each with any start date and of either customer,
\* at most one of them with priority P0 and the others with none, under every
\* kind of sort order (one key, two keys, an unknown key, none)
OrderPlacements ==
    { [i \in 1..3 |->
         [customer |-> c[i],
          task |-> [PlainTask(KeyNames[i]) EXCEPT !.customfield_10015 = s[i],
                                                  !.priority = p[i]]]] :
        c \in [1..3 -> {"CustA", "CustB"}],
        s \in [1..3 -> OptDates],
        p \in {<<"P0", Null, Null>>, <<Null, "P0", Null>>, <<Null, Null, "P0">>,
               <<Null, Null, Null>>} }

OrderSortBys ==
    { <<"start_date">>, <<"customer", "start_date">>, <<"priority">>,
      <<"start_date", "priority">>, <<"sprint", "priority">>, <<>> }

InitOrder ==
    InitOver(OrderPlacements, {<<"R1">>}, OrderSortBys, {NoFilters}, {1}, {1})

SpecOrder == InitOrder /\ [][Next]_vars

\* SpecDuplicates: an open or Completed task K1 with any start and due date,
\* and two records of key K2, one under each customer, each with any start
\* date; the second record is the first one again (the same task listed under
\* two customers) or has another title, and is on the same resource or on
\* another one
DuplicatePlacements ==
    { << [customer |-> "CustA", task |-> t1],
         [customer |-> "CustA", task |-> t2],
         [customer |-> "CustB", task |-> [t3 EXCEPT !.name = n, !.assignee = r]] >> :
        t1 \in DatedTasks("K1", OptDates, OptDates, {<<>>},
                          {"Completed", "In Progress"}),
        t2 \in DatedTasks("K2", OptDates, {NoDate}, {<<>>}, {"In Progress"}),
        t3 \in DatedTasks("K2", OptDates, {NoDate}, {<<>>}, {"In Progress"}),
        n \in {<<"K2", "title">>, <<"K2", "another", "title">>},
        r \in {"R1", "R2"} }

InitDuplicates ==
    InitOver(DuplicatePlacements, {<<"R1">>}, {<<"start_date">>, <<>>},
             {NoFilters}, {1}, {1})

SpecDuplicates == InitDuplicates /\ [][Next]_vars

\* SpecVersions: a task with any start date and any fixVersions list of up to
\* MaxVersions entries, each with or without a release date, next to a plain
\* task
VersionLists ==
    UNION { { Versions(release_dates) : release_dates \in [1..n -> OptDates] } :
              n \in 0..MaxVersions }

VersionPlacements ==
    { << [customer |-> "CustA", task |-> t1],
         [customer |-> "CustA", task |-> PlainTask("K2")] >> :
        t1 \in DatedTasks("K1", OptDates, {NoDate}, VersionLists, {"In Progress"}) }

InitVersions ==
    InitOver(VersionPlacements, {<<"R1">>}, {<<"start_date">>}, {NoFilters},
             {1}, {1})

SpecVersions == InitVersions /\ [][Next]_vars

\* SpecEmpty: a task with any start date, fix-version release date and status
\* next to a plain task, under filters whose keys are absent, present but
\* empty (an empty list, an empty string), or set
EmptyOrAbsent == {NoSet, AllowList({})}

EmptyFilters ==
    { [resource |-> r, priority |-> p, customers |-> c, task_status |-> s,
       schedule_status |-> a, from_start_date |-> f, to_end_date |-> t,
       conflict |-> NoConflictFilter] :
        r \in EmptyOrAbsent, p \in EmptyOrAbsent, c \in EmptyOrAbsent,
        s \in EmptyOrAbsent \cup {AllowList({"In Progress"})},
        a \in EmptyOrAbsent \cup {AllowList({"Error"})},
        f \in {NoBound, Bound(NoDate), Bound(2)},
        t \in {NoBound, Bound(NoDate), Bound(2)} }

EmptyPlacements ==
    { << [customer |-> "CustA", task |-> t1],
         [customer |-> "CustB", task |-> PlainTask("K2")] >> :
        t1 \in DatedTasks("K1", OptDates, {NoDate}, OneRelease,
                          {"Completed", "In Progress"}) }

InitEmpty ==
    InitOver(EmptyPlacements, {<<"R1">>}, {<<"start_date">>}, EmptyFilters,
             {1}, {1})

SpecEmpty == InitEmpty /\ [][Next]_vars

\* SpecPipeline: two calls of generate_and_print_schedule run interleaved in
\* one interpreter, each on its own configuration (resource and customer
\* aliases) and its own data files (one task, with any due date, enriched or
\* not by a raw issue)
Invocations == {1, 2}

ResourceAliases == {NoAliases, "R1" :> "Alice", "R1" :> "Bob"}
CustomerAliases == {NoAliases, "CustA" :> "Acme"}

Configs ==
    { [resource_aliases |-> ra, customer_aliases |-> ca,
       sort_by |-> <<"start_date">>, filter |-> NoFilters] :
        ra \in ResourceAliases, ca \in CustomerAliases }

ProjectFiles ==
    { [resources |-> <<"R1">>,
       customers |-> MkCustomers(<< [customer |-> "CustA", task |-> t] >>)] :
        t \in DatedTasks("K1", {NoDate}, OptDates, {<<>>}, {"In Progress"})
              \cup {[PlainTask("K1") EXCEPT !.name = MissingName]} }

RawIssueFiles ==
    { [k \in {} |-> 0],
      "K1" :> [customfield_10015 |-> 1, fixVersions |-> <<>>] }

InvocationInputs ==
    { [pc |-> "start", CONFIG |-> c, project_data |-> d, raw_jira_issues |-> r,
       now |-> 2, project_schedule |-> <<>>, printed |-> <<>>] :
        c \in Configs, d \in ProjectFiles, r \in RawIssueFiles }

InitPipeline ==
    /\ data = [resources |-> <<>>, customers |-> <<>>]
    /\ sort_by = <<>>
    /\ filters = NoFilters
    /\ today = 2
    /\ pending = 0
    /\ pc = "idle"
    /\ all_tasks = <<>>
    /\ resource_index = NoIndex
    /\ final_schedule = <<>>
    /\ post_filtered_schedule = <<>>
    /\ result = <<>>
    /\ prev_result = <<>>
    /\ calls = 0
    /\ RESOURCE_ALIASES = NoAliases
    /\ CUSTOMER_ALIASES = NoAliases
    /\ invocations \in [Invocations -> InvocationInputs]
    /\ CommandsIdle

SpecPipeline == InitPipeline /\ [][NextPipeline]_vars

\* SpecReport: one call of generate_and_print_schedule on a projects file of
\* three tasks, each with any of six issue types (listed, unlisted, null) and
\* any of four health-status labels (listed, unlisted, null)
ReportIssueTypes == {"Code", "Task", "Epic", "Story", "Spike", Null}
ReportHealthStatuses == {"On Track", "Off Track", "Blocked", Null}

ReportFiles ==
    { [resources |-> <<"R1">>,
       customers |-> MkCustomers(
           [i \in 1..3 |->
              [customer |-> "CustA",
               task |-> [PlainTask(KeyNames[i]) EXCEPT
                           !.issue_type = ty[i],
                           !.task_health_status = h[i]]]])] :
        ty \in [1..3 -> ReportIssueTypes], h \in [1..3 -> ReportHealthStatuses] }

ReportInputs ==
    { [pc |-> "start",
       CONFIG |-> [resource_aliases |-> "R1" :> "Alice",
                   customer_aliases |-> NoAliases,
                   sort_by |-> <<"start_date">>, filter |-> NoFilters],
       project_data |-> d, raw_jira_issues |-> [k \in {} |-> 0],
       now |-> 2, project_schedule |-> <<>>, printed |-> <<>>] :
        d \in ReportFiles }

InitReport ==
    /\ data = [resources |-> <<>>, customers |-> <<>>]
    /\ sort_by = <<>>
    /\ filters = NoFilters
    /\ today = 2
    /\ pending = 0
    /\ pc = "idle"
    /\ all_tasks = <<>>
    /\ resource_index = NoIndex
    /\ final_schedule = <<>>
    /\ post_filtered_schedule = <<>>
    /\ result = <<>>
    /\ prev_result = <<>>
    /\ calls = 0
    /\ RESOURCE_ALIASES = NoAliases
    /\ CUSTOMER_ALIASES = NoAliases
    /\ invocations \in [{1} -> ReportInputs]
    /\ CommandsIdle

SpecReport == InitReport /\ [][NextPipeline]_vars

-----------------------------------------------------------------------------
(* Properties of the classifier *)

\* the entries classified so far, by position in the sorted task list
Classified == 1..Len(final_schedule)

\* the interval of task j overlaps the interval of task i on the same resource
SharesTime(i, j) ==
    /\ i # j
    /\ all_tasks[i].assignee = all_tasks[j].assignee
    /\ all_tasks[i].start_date # NoDate
    /\ all_tasks[j].start_date # NoDate
    /\ all_tasks[i].start_date < TaskEffectiveEnd(all_tasks[j])
    /\ all_tasks[j].start_date < TaskEffectiveEnd(all_tasks[i])

\* C1 as stated: every task with a null due date gets schedule_status "Error",
\* whatever its task status and whatever it overlaps.
C1_NullDueIsError ==
    \A i \in Classified :
        all_tasks[i].due_date = NoDate
            => final_schedule[i].schedule_status = "Error"

\* C1 amended: every task with a null due date whose status is not "Completed"
\* gets schedule_status "Error", whether or not it overlaps other tasks on its
\* resource; a Completed task with a null due date gets "On Time".
C1_OpenNullDueIsError ==
    \A i \in Classified :
        all_tasks[i].due_date = NoDate
            => final_schedule[i].schedule_status =
                 (IF all_tasks[i].status = "Completed" THEN "On Time" ELSE "Error")

\* C1 witness: an open task without due date that overlaps another task of its
\* resource has been classified, and so has a Completed task without due date
C1_Witness ==
    /\ pc = "done"
    /\ \E i \in Classified :
          /\ all_tasks[i].due_date = NoDate
          /\ all_tasks[i].status # "Completed"
          /\ final_schedule[i].conflicting_tasks # <<>>
    /\ \E i \in Classified :
          /\ all_tasks[i].due_date = NoDate
          /\ all_tasks[i].status = "Completed"

\* C2: every task whose status is "Completed" gets schedule_status "On Time"
\* and an empty conflicting_tasks list, whatever its dates and whatever
\* intervals overlap it on its resource.
C2_CompletedOnTime ==
    \A i \in Classified :
        all_tasks[i].status = "Completed"
            => /\ final_schedule[i].schedule_status = "On Time"
               /\ final_schedule[i].conflicting_tasks = <<>>

\* C2 witness: a Completed task without due date whose interval overlaps the
\* interval of another task of its resource has been classified
C2_Witness ==
    \E i \in Classified, j \in 1..Len(all_tasks) :
        /\ all_tasks[i].status = "Completed"
        /\ all_tasks[i].due_date = NoDate
        /\ SharesTime(i, j)

\* C5: for a task that is not Completed and has a due date the status is
\* "Conflict!" if a conflict was recorded, else "Overdue" if the due date is
\* strictly before the current date, else "Late" if there is a fix-version
\* date later than the due date, else "On Time".
C5_StatusChain ==
    \A i \in Classified :
        LET t == all_tasks[i]
            e == final_schedule[i]
        IN  (t.status # "Completed" /\ t.due_date # NoDate) =>
              /\ e.conflicting_tasks # <<>> => e.schedule_status = "Conflict!"
              /\ (e.conflicting_tasks = <<>> /\ t.due_date < today)
                    => e.schedule_status = "Overdue"
              /\ (/\ e.conflicting_tasks = <<>>
                  /\ t.due_date >= today
                  /\ t.fix_version_date # NoDate
                  /\ t.fix_version_date > t.due_date)
                    => e.schedule_status = "Late"
              /\ (/\ e.conflicting_tasks = <<>>
                  /\ t.due_date >= today
                  /\ ~(t.fix_version_date # NoDate
                       /\ t.fix_version_date > t.due_date))
                    => e.schedule_status = "On Time"

\* C5 witness: a task due today that is on time next to a task that is late
C5_Witness ==
    \E i \in Classified, j \in Classified :
        /\ all_tasks[i].status # "Completed"
        /\ all_tasks[i].due_date = today
        /\ final_schedule[i].schedule_status = "On Time"
        /\ all_tasks[j].status # "Completed"
        /\ final_schedule[j].schedule_status = "Late"

-----------------------------------------------------------------------------
(* Properties of conflict recording *)

Key(i) == KeyOf(all_tasks[i].task)

Lists(i, j) == Key(j) \in Range(final_schedule[i].conflicting_tasks)

\* C3 as stated: if B's key is in A's conflicting_tasks then A's key is in B's.
C3_Symmetric ==
    \A i \in Classified, j \in Classified : Lists(i, j) => Lists(j, i)

\* C3 amended: conflict recording is symmetric towards tasks that are not
\* Completed: if B's key is in A's conflicting_tasks and B's status is not
\* "Completed", then A's key is in B's conflicting_tasks.
C3_SymmetricOpen ==
    \A i \in Classified, j \in Classified :
        (Lists(i, j) /\ all_tasks[j].status # "Completed") => Lists(j, i)

\* C3 witness: two open tasks that list each other
C3_Witness ==
    \E i \in Classified, j \in Classified :
        /\ i # j
        /\ Lists(i, j)
        /\ Lists(j, i)
        /\ all_tasks[i].fix_version_date # NoDate

\* C4: two tasks of one resource of which one's parent_key is the other's
\* identity key never list each other in conflicting_tasks.
C4_ParentChildNeverConflict ==
    \A i \in Classified, j \in Classified :
        (/\ all_tasks[i].assignee = all_tasks[j].assignee
         /\ all_tasks[i].parent_key = Key(j))
            => ~Lists(i, j) /\ ~Lists(j, i)

\* C4 witness: an open child and its open parent on one resource, with
\* overlapping intervals, have both been classified
C4_Witness ==
    \E i \in Classified, j \in Classified :
        /\ all_tasks[i].parent_key = Key(j)
        /\ all_tasks[j].parent_key = Null
        /\ all_tasks[i].status # "Completed"
        /\ all_tasks[j].status # "Completed"
        /\ SharesTime(i, j)

-----------------------------------------------------------------------------
(* Properties of repeated calls *)

\* C7: a second call of generate_plan on the same data, sort_by_fields and
\* filters, on the same day, returns the same ordered list of entries as the
\* first call.
C7_SameResultAgain ==
    (pc = "done" /\ calls >= 2) => result = prev_result

\* C7 witness: the second call has returned a list that holds a conflict
C7_Witness ==
    /\ pc = "done"
    /\ calls = 2
    /\ \E i \in 1..Len(result) : result[i].schedule_status = "Conflict!"

-----------------------------------------------------------------------------
(* Properties of the ordering stage *)

\* the ordering stage of the current call is over
Sorted == pc \in {"index", "classify", "return", "done"}

\* C6: under sort_by = [priority] a task of rank 0 ("P0", "Highest") comes
\* before a task of rank 4 ("P4", "Lowest"), and a task with null priority
\* comes after every task with a recognized priority token.
C6_PriorityOrder ==
    (Sorted /\ sort_by = <<"priority">>) =>
        \A i \in 1..Len(all_tasks), j \in 1..Len(all_tasks) :
            /\ (/\ PRIORITY_MAP(all_tasks[i].priority) = 0
                /\ PRIORITY_MAP(all_tasks[j].priority) = 4) => i < j
            /\ (/\ PRIORITY_MAP(all_tasks[i].priority) # UnknownPriority
                /\ all_tasks[j].priority = Null) => i < j

-----------------------------------------------------------------------------
(* Properties of the post-filter stage *)

\* post_filtered_schedule of the current call has been built
PostFiltered == pc \in {"return", "done"}

\* filters['conflict'] is exactly the one-element list [token]
ConflictEquals(token) ==
    /\ filters.conflict.present
    /\ filters.conflict.kind = "list"
    /\ filters.conflict.items = <<token>>

\* the entry passes the schedule_status allow-list
StatusAllowed(e) ==
    \/ ~filters.schedule_status.present
    \/ filters.schedule_status.items = {}
    \/ e.schedule_status \in filters.schedule_status.items

\* C8: with filters['conflict'] = ["True"] exactly the entries with a
\* non-empty conflicting_tasks are kept, with ["False"] exactly those with an
\* empty one, and any other value removes no entry.
C8_ConflictFilter ==
    PostFiltered =>
        post_filtered_schedule =
            SelectSeq(final_schedule,
                      LAMBDA e :
                          /\ StatusAllowed(e)
                          /\ ConflictEquals("True") => e.conflicting_tasks # <<>>
                          /\ ConflictEquals("False") => e.conflicting_tasks = <<>>)

\* C8 witness: under ["True"] a schedule with a conflicting and a
\* conflict-free entry has been reduced to the conflicting one
C8_Witness ==
    /\ pc = "done"
    /\ ConflictEquals("True")
    /\ \E i \in Classified : final_schedule[i].conflicting_tasks = <<>>
    /\ Len(result) = 1
    /\ result[1].conflicting_tasks # <<>>

-----------------------------------------------------------------------------
(* Properties of the filter stage *)

\* the filter stage of the current call is over and the list is not yet sorted
Filtered == pc = "sort"

\* the normalized tasks, before the filter stage
Normalized == FlattenCustomers(data.customers)

\* the date bounds of the configuration admit the task
WithinBounds(t) ==
    /\ ~(/\ filters.from_start_date.present
         /\ filters.from_start_date.value # NoDate
         /\ t.start_date # NoDate
         /\ t.start_date < filters.from_start_date.value)
    /\ ~(/\ filters.to_end_date.present
         /\ filters.to_end_date.value # NoDate
         /\ t.fix_version_date # NoDate
         /\ t.fix_version_date > filters.to_end_date.value)

\* the allow-list, when its key is present, holds the value
InConfigured(f, value) == f.present => value \in f.items

\* the allow-list, when its key is present with a non-empty list, holds the value
InNonEmpty(f, value) == (f.present /\ f.items # {}) => value \in f.items

\* C9 as stated: a task is kept iff it satisfies every allow-list whose key is
\* present (resource, priority, task_status, customers) and the date bounds.
C9_KeptIffAllConfigured ==
    Filtered =>
        all_tasks =
            SelectSeq(Normalized,
                      LAMBDA t :
                          /\ InConfigured(filters.resource, t.assignee)
                          /\ InConfigured(filters.priority, t.priority)
                          /\ InConfigured(filters.task_status, t.status)
                          /\ InConfigured(filters.customers, t.customer)
                          /\ WithinBounds(t))

\* C9 amended: a task is kept iff it satisfies every allow-list whose key is
\* present with a non-empty list and the date bounds; a key that is absent, or
\* present with an empty list, removes no task.
C9_KeptIffAllNonEmpty ==
    Filtered =>
        all_tasks =
            SelectSeq(Normalized,
                      LAMBDA t :
                          /\ InNonEmpty(filters.resource, t.assignee)
                          /\ InNonEmpty(filters.priority, t.priority)
                          /\ InNonEmpty(filters.task_status, t.status)
                          /\ InNonEmpty(filters.customers, t.customer)
                          /\ WithinBounds(t))

\* C9 witness: under four one-value allow-lists and both date bounds one task
\* has been kept and the other one removed
C9_Witness ==
    /\ Filtered
    /\ \A f \in {filters.resource, filters.priority, filters.task_status,
                 filters.customers} : f.present /\ f.items # {}
    /\ filters.from_start_date.present
    /\ filters.to_end_date.present
    /\ Len(all_tasks) = 1
    /\ KeyOf(all_tasks[1].task) = "K1"

\* C10: with from_start_date set a task is removed exactly when its start date
\* is non-null and strictly earlier than the bound, with to_end_date set
\* exactly when its fix-version date is non-null and strictly later than the
\* bound; equal dates, null dates and the due date remove nothing.
C10_InclusiveNullTolerant ==
    Filtered =>
        \A i \in 1..Len(Normalized) :
            LET t == Normalized[i]
                from == filters.from_start_date
                to == filters.to_end_date
                removed == \A k \in 1..Len(all_tasks) : all_tasks[k].task # t.task
            IN  removed <=>
                  \/ /\ from.present /\ from.value \in Dates
                     /\ t.start_date \in Dates
                     /\ t.start_date < from.value
                  \/ /\ to.present /\ to.value \in Dates
                     /\ t.fix_version_date \in Dates
                     /\ t.fix_version_date > to.value

\* C10 witness: a task that starts on the from bound and is released on the to
\* bound, with a due date after the to bound, has been kept next to a task
\* without dates, while some dated task of the list has been removed
C10_Witness ==
    /\ Filtered
    /\ filters.from_start_date.present
    /\ filters.to_end_date.present
    /\ \E i \in 1..Len(all_tasks), j \in 1..Len(all_tasks) :
          /\ all_tasks[i].start_date = filters.from_start_date.value
          /\ all_tasks[i].start_date # NoDate
          /\ all_tasks[i].fix_version_date = filters.to_end_date.value
          /\ all_tasks[i].due_date > filters.to_end_date.value
          /\ all_tasks[j].start_date = NoDate
          /\ all_tasks[j].fix_version_date = NoDate


-----------------------------------------------------------------------------
(* Properties of the whole call *)

\* the tasks that pass the pre-generation filters, in input order
PassPre ==
    SelectSeq(Normalized,
              LAMBDA t :
                  /\ InNonEmpty(filters.resource, t.assignee)
                  /\ InNonEmpty(filters.priority, t.priority)
                  /\ InNonEmpty(filters.task_status, t.status)
                  /\ InNonEmpty(filters.customers, t.customer)
                  /\ WithinBounds(t))

\* the entry passes the post-generation filters
PassesPost(e) ==
    /\ StatusAllowed(e)
    /\ ConflictEquals("True") => e.conflicting_tasks # <<>>
    /\ ConflictEquals("False") => e.conflicting_tasks = <<>>

ScheduleStatuses == {"On Time", "Late", "Overdue", "Conflict!", "Error"}

\* C11: the returned list holds exactly one entry for each task that passes the
\* pre-generation filters and whose entry passes the post-generation filters,
\* in the order the ordering stage fixed; every status is one of On Time, Late,
\* Overdue, Conflict!, Error; the post-filter only removes entries and changes
\* none.
C11_OneEntryPerKeptTask ==
    pc = "done" =>
        /\ Len(all_tasks) = Len(PassPre)
        /\ {all_tasks[i].task : i \in 1..Len(all_tasks)}
             = {PassPre[i].task : i \in 1..Len(PassPre)}
        /\ Len(final_schedule) = Len(all_tasks)
        /\ \A i \in Classified :
              /\ final_schedule[i].task = all_tasks[i].task
              /\ final_schedule[i].schedule_status \in ScheduleStatuses
        /\ result = SelectSeq(final_schedule, PassesPost)

\* C11 witness: under a pre-filter and both post-filters, two tasks passed the
\* pre-filter and were put in another order than the input's, and one of the
\* two entries was removed by the post-filters
C11_Witness ==
    /\ pc = "done"
    /\ filters.task_status.present
    /\ filters.schedule_status.present
    /\ filters.conflict.present
    /\ Len(all_tasks) = 2
    /\ all_tasks[1].task # Normalized[1].task
    /\ Len(result) = 1

\* C12: no step of generate_plan changes its arguments: data, sort_by_fields
\* and filters are the same after every step of the call as before it.
C12_InputsUnchanged ==
    [][data' = data /\ sort_by' = sort_by /\ filters' = filters]_vars

\* C12 witness: a call has returned entries for a task list that holds a task
\* of a resource data['resources'] does not declare
C12_Witness ==
    /\ pc = "done"
    /\ Len(result) = 2
    /\ \E i \in 1..Len(all_tasks) :
          all_tasks[i].assignee \notin Range(data.resources)

-----------------------------------------------------------------------------
(* Properties of the pipeline *)

\* what an invocation prints when it runs alone
PrintedAlone(inv) ==
    print_schedule(generate_plan(EnrichData(inv.project_data, inv.raw_jira_issues),
                                 inv.CONFIG.sort_by, inv.CONFIG.filter, inv.now),
                   inv.CONFIG.resource_aliases, inv.CONFIG.customer_aliases)

\* C13: two pipeline invocations on independent inputs and configurations,
\* interleaved in any way, each print what they print when run alone.
C13_InterleavingInvisible ==
    \A p \in DOMAIN invocations :
        invocations[p].pc = "finished"
            => invocations[p].printed = PrintedAlone(invocations[p])

-----------------------------------------------------------------------------
(* Properties of the normalizer *)

\* the tasks of the input, as the projects JSON holds them
InputTasks ==
    UNION { UNION { Range(w.tasks) : w \in Range(c.work_packets) } :
              c \in Range(data.customers) }

\* C14: when some task of the input lacks the key 'name', generate_plan
\* raises while it normalizes: no later stage runs, no entry is built and no
\* schedule is returned, so the call never goes on without the task.
C14_MissingNameAborts ==
    (\E t \in InputTasks : t.name = MissingName) =>
        /\ pc \in {"idle", "normalize", "raised"}
        /\ final_schedule = <<>>
        /\ post_filtered_schedule = <<>>
        /\ result = <<>>
        /\ calls = 0

\* C14 witness: generate_plan has raised on an input that holds a task with a
\* name next to a task without one
C14_Witness ==
    /\ pc = "raised"
    /\ \E t \in InputTasks : t.name = MissingName
    /\ \E t \in InputTasks : t.name # MissingName

\* C15: a task with null or absent start date, fix versions, due date or
\* priority, or with an unrecognized priority, never makes generate_plan
\* raise: the call returns an entry for it, its priority is ranked 99, and a
\* missing due date shows as schedule_status "Error" (for a Completed task,
\* whose status is never computed, not at all).
C15_OptionalNeverFails ==
    /\ pc # "raised"
    /\ pc \notin {"idle", "normalize"} =>
          \A i \in 1..Len(all_tasks) :
              all_tasks[i].priority \notin {"P0", "P1", "P2", "P3"}
                  => all_tasks[i].priority_value = UnknownPriority
    /\ \A i \in Classified :
          (all_tasks[i].due_date = NoDate /\ all_tasks[i].status # "Completed")
              => final_schedule[i].schedule_status = "Error"
    /\ pc = "done" =>
          /\ Len(result) = Cardinality(InputTasks)
          /\ \A t \in InputTasks : \E i \in 1..Len(result) : result[i].task = t.name

\* C15 witness: the call has returned entries for a task without start date,
\* due date, release date and priority and for a task with an unrecognized
\* priority
C15_Witness ==
    /\ pc = "done"
    /\ \E i \in 1..Len(result) :
          /\ result[i].start_date = NoDate
          /\ result[i].due_date = NoDate
          /\ result[i].fix_version_date = NoDate
          /\ result[i].priority = Null
          /\ result[i].schedule_status = "Error"
    /\ \E i \in 1..Len(result) : result[i].priority = "Blocker"
    /\ \E t \in InputTasks : t.priority = Absent

-----------------------------------------------------------------------------
(* Properties of intervals *)

\* the interval [start, end) the source's rule gives a task: the fix-version
\* date when there is one and it is not before the start, else the due date,
\* else the day after the start
StartOf(i) == all_tasks[i].start_date

EndOf(i) ==
    LET t == all_tasks[i]
    IN  CASE t.fix_version_date # NoDate
             /\ (t.start_date = NoDate \/ t.fix_version_date >= t.start_date)
               -> t.fix_version_date
          [] OTHER ->
               IF t.due_date # NoDate THEN t.due_date
               ELSE IF t.start_date # NoDate THEN t.start_date + 1
               ELSE NoDate

\* C16: an open task A lists another task B of its resource, both with a
\* start date, exactly when A.start < B.end and A.end > B.start; two tasks
\* whose intervals only touch (A.end = B.start) never list each other.
C16_StrictOverlap ==
    \A i \in Classified, j \in 1..Len(all_tasks) :
        (/\ i # j
         /\ all_tasks[i].status # "Completed"
         /\ all_tasks[i].assignee = all_tasks[j].assignee
         /\ StartOf(i) # NoDate
         /\ StartOf(j) # NoDate)
            => /\ Lists(i, j) <=> (StartOf(i) < EndOf(j) /\ EndOf(i) > StartOf(j))
               /\ EndOf(i) = StartOf(j) => ~Lists(i, j)
               /\ EndOf(j) = StartOf(i) => ~Lists(i, j)

\* C16 witness: two open tasks of one resource, the first ending on the day
\* the second starts, have both been classified and neither lists the other
C16_Witness ==
    \E i \in Classified, j \in Classified :
        /\ all_tasks[i].status # "Completed"
        /\ all_tasks[j].status # "Completed"
        /\ all_tasks[i].assignee = all_tasks[j].assignee
        /\ StartOf(i) # NoDate
        /\ StartOf(i) < EndOf(i)
        /\ EndOf(i) = StartOf(j)
        /\ StartOf(j) < EndOf(j)
        /\ ~Lists(i, j)
        /\ ~Lists(j, i)

\* the interval index of the current call has been built
Indexed == pc \in {"classify", "return", "done"}

\* the intervals the index holds for the resource of task i under the key of
\* task i
IntervalsOf(i) ==
    LET r == all_tasks[i].assignee
    IN  IF r \in DOMAIN resource_index
        THEN {iv \in Range(resource_index[r]) : iv.key = Key(i)}
        ELSE {}

\* C17: the effective end date of a task is its fix-version date when that is
\* present and the start date is null or not after it; else its due date when
\* present; else its start date plus one day when the start date is present;
\* else undefined.  The index builder and the classifier compute this same
\* value for every task, and it is the end of the interval the index stores.
C17_EffectiveEnd ==
    Indexed =>
        \A i \in 1..Len(all_tasks) :
            /\ IndexEffectiveEnd(all_tasks[i]) = EndOf(i)
            /\ TaskEffectiveEnd(all_tasks[i]) = EndOf(i)
            /\ (StartOf(i) # NoDate /\ EndOf(i) # NoDate)
                  => IntervalsOf(i) # {} /\ \A iv \in IntervalsOf(i) : iv.end = EndOf(i)

\* C17 witness: the index holds a task whose fix-version date is before its
\* start date, so that its due date is its effective end, next to a task with
\* a start date only, which ends on the next day
C17_Witness ==
    /\ Indexed
    /\ \E i \in 1..Len(all_tasks), j \in 1..Len(all_tasks) :
          /\ all_tasks[i].fix_version_date # NoDate
          /\ all_tasks[i].fix_version_date < StartOf(i)
          /\ all_tasks[i].due_date # NoDate
          /\ \E iv \in IntervalsOf(i) : iv.end = all_tasks[i].due_date
          /\ all_tasks[j].due_date = NoDate
          /\ StartOf(j) # NoDate
          /\ \E iv \in IntervalsOf(j) : iv.end = StartOf(j) + 1

\* C18: every task with a start date and a computable effective end date has
\* its effective end date on or after its start date, so every interval the
\* index stores has start <= end.
C18_EndNotBeforeStart ==
    Indexed =>
        /\ \A i \in 1..Len(all_tasks) :
              (StartOf(i) # NoDate /\ EndOf(i) # NoDate) => StartOf(i) <= EndOf(i)
        /\ \A r \in DOMAIN resource_index :
              \A iv \in Range(resource_index[r]) : iv.start <= iv.end

\* C19: a task with a null start date has no interval in the index, an empty
\* conflicting_tasks list, and its key in no other task's conflicting_tasks,
\* whatever its due date and fix-version date.
C19_NullStartNoConflict ==
    \A i \in Classified :
        StartOf(i) = NoDate =>
            /\ IntervalsOf(i) = {}
            /\ final_schedule[i].conflicting_tasks = <<>>
            /\ \A j \in Classified : ~Lists(j, i)

\* C19 witness: an open task without start date, with a due date and a
\* fix-version date, has been classified next to an open task of the same
\* resource whose interval covers both dates
C19_Witness ==
    \E i \in Classified, j \in Classified :
        /\ StartOf(i) = NoDate
        /\ all_tasks[i].due_date # NoDate
        /\ all_tasks[i].fix_version_date # NoDate
        /\ all_tasks[i].status # "Completed"
        /\ all_tasks[j].status # "Completed"
        /\ all_tasks[j].assignee = all_tasks[i].assignee
        /\ StartOf(j) # NoDate
        /\ StartOf(j) <= all_tasks[i].due_date
        /\ EndOf(j) > all_tasks[i].fix_version_date

\* the tasks the pre-generation filters remove
RemovedPre == Range(Normalized) \ Range(PassPre)

\* C20: every key in an entry's conflicting_tasks is the key of a task that
\* passed the pre-generation filters, has a start date and is on the entry's
\* resource; a task the pre-generation filters removed has no interval in the
\* index, no entry, and its key in no conflicting_tasks list.
C20_OnlyKeptTasksConflict ==
    Indexed =>
        /\ \A i \in Classified :
              \A k \in Range(final_schedule[i].conflicting_tasks) :
                  \E t \in Range(PassPre) :
                      /\ KeyOf(t.task) = k
                      /\ t.start_date # NoDate
                      /\ t.assignee = final_schedule[i].resource
        /\ \A t \in RemovedPre :
              /\ \A r \in DOMAIN resource_index :
                    \A iv \in Range(resource_index[r]) : iv.key # KeyOf(t.task)
              /\ \A i \in Classified :
                    /\ final_schedule[i].task # t.task
                    /\ KeyOf(t.task) \notin Range(final_schedule[i].conflicting_tasks)

\* C20 witness: the task_status allow-list removed a Completed task whose
\* interval overlaps the interval of the open task of the same resource that
\* was kept, and the kept task's entry lists nothing
C20_Witness ==
    /\ pc = "done"
    /\ Len(all_tasks) = 1
    /\ all_tasks[1].status # "Completed"
    /\ final_schedule[1].conflicting_tasks = <<>>
    /\ \E t \in RemovedPre :
          /\ t.assignee = all_tasks[1].assignee
          /\ t.start_date # NoDate
          /\ StartOf(1) # NoDate
          /\ StartOf(1) < TaskEffectiveEnd(t)
          /\ t.start_date < EndOf(1)

-----------------------------------------------------------------------------
(* Properties of the ordering stage, continued *)

\* the composite key of a task under the configured sort_by
CompositeKey(t) == get_sort_key(t, sort_by)

\* key a is lexicographically before key b
RECURSIVE KeyBefore(_, _)
KeyBefore(a, b) ==
    /\ a # <<>>
    /\ b # <<>>
    /\ \/ Head(a) < Head(b)
       \/ Head(a) = Head(b) /\ KeyBefore(Tail(a), Tail(b))

\* the position of the task in the normalizer's output
NormalizedPosition(t) ==
    CHOOSE k \in 1..Len(Normalized) : Normalized[k].task = t.task

\* C21: after the ordering stage the tasks are the normalizer's tasks in
\* non-decreasing composite-key order, tasks with the same composite key are
\* in normalizer order, and when start_date is the leading key every task
\* with a null start date comes after every task with a start date.
C21_StableSort ==
    Sorted =>
        /\ Len(all_tasks) = Len(PassPre)
        /\ Range(all_tasks) = Range(PassPre)
        /\ \A i \in 1..Len(all_tasks), j \in 1..Len(all_tasks) :
              i < j =>
                /\ ~KeyBefore(CompositeKey(all_tasks[j]), CompositeKey(all_tasks[i]))
                /\ CompositeKey(all_tasks[i]) = CompositeKey(all_tasks[j])
                      => NormalizedPosition(all_tasks[i]) < NormalizedPosition(all_tasks[j])
                /\ (/\ sort_by # <<>>
                    /\ Head(sort_by) = "start_date"
                    /\ all_tasks[i].start_date = NoDate)
                      => all_tasks[j].start_date = NoDate

\* C21 witness: under sort_by = [start_date] a task without start date that
\* came first was put last, behind two tasks of the same start date that kept
\* their order
C21_Witness ==
    /\ Sorted
    /\ sort_by = <<"start_date">>
    /\ Len(all_tasks) = 3
    /\ Normalized[1].start_date = NoDate
    /\ all_tasks[3].task = Normalized[1].task
    /\ all_tasks[1].start_date = all_tasks[2].start_date
    /\ all_tasks[1].start_date # NoDate
    /\ all_tasks[1].task = Normalized[2].task

-----------------------------------------------------------------------------
(* Properties of conflict recording, continued *)

\* tasks i and j are on one resource, both have a start date, and their
\* intervals overlap
IntervalsOverlap(i, j) ==
    /\ all_tasks[i].assignee = all_tasks[j].assignee
    /\ StartOf(i) # NoDate
    /\ StartOf(j) # NoDate
    /\ StartOf(i) < EndOf(j)
    /\ EndOf(i) > StartOf(j)

\* C22: an open task T with a due date whose interval overlaps the interval
\* of a Completed task C of the same resource, neither of them with a parent
\* link, gets schedule_status "Conflict!" with C's key in conflicting_tasks,
\* while C's own entry lists no conflicts.
C22_CompletedStillBlocks ==
    \A i \in Classified, j \in Classified :
        (/\ Key(i) # Key(j)
         /\ all_tasks[i].status # "Completed"
         /\ all_tasks[i].due_date # NoDate
         /\ all_tasks[j].status = "Completed"
         /\ all_tasks[i].parent_key = Null
         /\ all_tasks[j].parent_key = Null
         /\ IntervalsOverlap(i, j))
            => /\ final_schedule[i].schedule_status = "Conflict!"
               /\ Lists(i, j)
               /\ final_schedule[j].conflicting_tasks = <<>>

\* C22 witness: an open task with a due date and a Completed task of the
\* same resource with overlapping intervals have both been classified
C22_Witness ==
    \E i \in Classified, j \in Classified :
        /\ Key(i) # Key(j)
        /\ all_tasks[i].status # "Completed"
        /\ all_tasks[i].due_date # NoDate
        /\ all_tasks[j].status = "Completed"
        /\ IntervalsOverlap(i, j)
        /\ final_schedule[i].conflicting_tasks = <<Key(j)>>

\* the keys of the tasks whose interval overlaps the interval of task i on
\* its resource and whose key is not the key of task i, in sorted order, one
\* for each task
OverlappingKeys(i) ==
    LET others == SelectSeq([j \in 1..Len(all_tasks) |-> j],
                            LAMBDA j : Key(j) # Key(i) /\ IntervalsOverlap(i, j))
    IN  [k \in 1..Len(others) |-> Key(others[k])]

\* C23: the conflicting_tasks of an open task holds one element for each
\* overlapping interval of its resource (no parent links), in the order of
\* the sorted task list and without deduplication: a key that owns k such
\* intervals appears k times.
C23_OneElementPerInterval ==
    \A i \in Classified :
        all_tasks[i].status # "Completed"
            => final_schedule[i].conflicting_tasks = OverlappingKeys(i)

\* C23 witness: the same task listed under two customers overlaps an open
\* task of its resource, whose conflicting_tasks holds its key twice
C23_Witness ==
    \E i \in Classified, j \in 1..Len(all_tasks), k \in 1..Len(all_tasks) :
        /\ j # k
        /\ all_tasks[j].task = all_tasks[k].task
        /\ all_tasks[j].start_date = all_tasks[k].start_date
        /\ all_tasks[j].customer # all_tasks[k].customer
        /\ final_schedule[i].conflicting_tasks = <<Key(j), Key(j)>>

\* C24: the key of an interval is the first token of the task's display
\* name, no entry lists its own identity key in conflicting_tasks, and two
\* records with the same identity key never list each other, whatever their
\* dates.
C24_OwnKeyNeverListed ==
    /\ Indexed =>
          \A r \in DOMAIN resource_index : \A iv \in Range(resource_index[r]) :
              \E j \in 1..Len(all_tasks) :
                  /\ iv.key = Head(all_tasks[j].task)
                  /\ iv.start = StartOf(j)
                  /\ all_tasks[j].assignee = r
    /\ \A i \in Classified :
          \A j \in 1..Len(all_tasks) :
              Head(all_tasks[j].task) = Head(all_tasks[i].task)
                  => Head(all_tasks[j].task)
                        \notin Range(final_schedule[i].conflicting_tasks)

\* C24 witness: two records of one key and different titles, on one resource
\* and with overlapping intervals, have been classified, and the first lists
\* a task of another key
C24_Witness ==
    \E i \in Classified, j \in Classified :
        /\ i # j
        /\ Key(i) = Key(j)
        /\ all_tasks[i].task # all_tasks[j].task
        /\ IntervalsOverlap(i, j)
        /\ final_schedule[i].conflicting_tasks # <<>>

-----------------------------------------------------------------------------
(* Properties of the normalizer, continued *)

\* the normalizer has run
NormalizerDone == pc \in {"filter", "sort", "index", "classify", "return", "done"}

\* the positions of the versions that carry a release date
Released(fix_versions) ==
    {k \in 1..Len(fix_versions) : fix_versions[k].releaseDate # NoDate}

\* C25: the fix-version date of a task is the release date of the first
\* entry of its fixVersions list, in list order, that has a release date,
\* whatever the dates of the later entries, and null when the list is empty
\* or no entry has a release date.
C25_FirstReleaseDate ==
    NormalizerDone =>
        \A t \in InputTasks :
            \A i \in 1..Len(all_tasks) :
                all_tasks[i].task = t.name =>
                    all_tasks[i].fix_version_date =
                        (IF Released(t.fixVersions) = {} THEN NoDate
                         ELSE LET first == CHOOSE k \in Released(t.fixVersions) :
                                              \A m \in Released(t.fixVersions) : k <= m
                              IN  t.fixVersions[first].releaseDate)

\* C25 witness: a task whose list holds a version without release date, then
\* a version, then a version released earlier, got the date of the second
\* entry and has been classified
C25_Witness ==
    /\ pc = "done"
    /\ \E t \in InputTasks :
          /\ Len(t.fixVersions) = 3
          /\ t.fixVersions[1].releaseDate = NoDate
          /\ t.fixVersions[2].releaseDate # NoDate
          /\ t.fixVersions[3].releaseDate # NoDate
          /\ t.fixVersions[3].releaseDate < t.fixVersions[2].releaseDate
          /\ \E i \in 1..Len(result) :
                /\ result[i].task = t.name
                /\ result[i].fix_version_date = t.fixVersions[2].releaseDate

-----------------------------------------------------------------------------
(* Properties of the report grouper *)

\* the group keys of an entry: null goes to "Unknown"
TypeLabel(e) == IF e.issue_type = Null THEN "Unknown" ELSE e.issue_type
HealthLabel(e) ==
    IF e.task_health_status = Null THEN "Unknown" ELSE e.task_health_status

\* the place of a value in a preference list, the length of the list when
\* the list does not hold it
Preference(order, x) ==
    IF x \in Range(order)
    THEN CHOOSE k \in 1..Len(order) : order[k] = x
    ELSE Len(order) + 1

\* the first position of the schedule at which the predicate holds
FirstPosition(schedule, Holds(_)) ==
    CHOOSE k \in 1..Len(schedule) :
        Holds(schedule[k]) /\ \A m \in 1..(k - 1) : ~Holds(schedule[m])

\* the groups of a finished invocation are right for its schedule
GroupedRight(schedule, groups, printed) ==
    /\ \A k \in 1..Len(schedule) :
          \E g \in 1..Len(groups) :
              /\ schedule[k] \in Range(groups[g].tasks)
              /\ groups[g].issue_type = TypeLabel(schedule[k])
              /\ groups[g].health_status = HealthLabel(schedule[k])
              /\ \A h \in 1..Len(groups) :
                    schedule[k] \in Range(groups[h].tasks) => h = g
    /\ \A g \in 1..Len(groups) :
          /\ groups[g].tasks # <<>>
          /\ groups[g].tasks =
                SelectSeq(schedule,
                          LAMBDA e : /\ TypeLabel(e) = groups[g].issue_type
                                     /\ HealthLabel(e) = groups[g].health_status)
    /\ \A a \in 1..Len(groups), b \in 1..Len(groups) :
          a < b =>
            LET ta == groups[a].issue_type
                tb == groups[b].issue_type
                ha == groups[a].health_status
                hb == groups[b].health_status
                OfType(t) == SelectSeq(schedule, LAMBDA e : TypeLabel(e) = t)
            IN  /\ Preference(issue_type_order, Upper(ta))
                      <= Preference(issue_type_order, Upper(tb))
                /\ (/\ ta # tb
                    /\ Upper(ta) \notin Range(issue_type_order)
                    /\ Upper(tb) \notin Range(issue_type_order))
                      => FirstPosition(schedule, LAMBDA e : TypeLabel(e) = ta)
                           < FirstPosition(schedule, LAMBDA e : TypeLabel(e) = tb)
                /\ ta = tb =>
                      /\ ha # hb
                      /\ \A c \in a..b : groups[c].issue_type = ta
                      /\ Preference(health_status_order, ha)
                            <= Preference(health_status_order, hb)
                      /\ (/\ ha \notin Range(health_status_order)
                          /\ hb \notin Range(health_status_order))
                            => FirstPosition(OfType(ta), LAMBDA e : HealthLabel(e) = ha)
                                 < FirstPosition(OfType(ta), LAMBDA e : HealthLabel(e) = hb)
    /\ Len(printed) = Len(groups)
    /\ \A g \in 1..Len(groups) :
          /\ printed[g].issue_type = Upper(groups[g].issue_type)
          /\ printed[g].health_status = groups[g].health_status
          /\ Len(printed[g].rows) = Len(groups[g].tasks)
          /\ \A k \in 1..Len(groups[g].tasks) :
                printed[g].rows[k].task = groups[g].tasks[k].task

\* C26: the report grouper puts every schedule entry, unchanged, in exactly
\* one (issue type, health-status label) group, null going to "Unknown";
\* issue-type groups come in the order CODE, BUG, TASK, EPIC, then the
\* unlisted types in first-seen order; within an issue type the health-status
\* groups come in the fixed preference order, then the unlisted labels in
\* first-seen order.
C26_GroupedInOrder ==
    \A p \in DOMAIN invocations :
        invocations[p].pc = "finished" =>
            GroupedRight(invocations[p].project_schedule,
                         GroupedSchedule(invocations[p].project_schedule),
                         invocations[p].printed)

\* C26 witness: a schedule of a Story, then an Epic, then a Task without
\* health status has been printed as TASK, EPIC, STORY
C26_Witness ==
    \E p \in DOMAIN invocations :
        /\ invocations[p].pc = "finished"
        /\ Len(invocations[p].project_schedule) = 3
        /\ invocations[p].project_schedule[1].issue_type = "Story"
        /\ invocations[p].project_schedule[2].issue_type = "Epic"
        /\ invocations[p].project_schedule[3].issue_type = "Task"
        /\ invocations[p].project_schedule[3].task_health_status = Null
        /\ Len(invocations[p].printed) = 3
        /\ invocations[p].printed[1].issue_type = "TASK"
        /\ invocations[p].printed[1].health_status = "Unknown"
        /\ invocations[p].printed[3].issue_type = "STORY"

-----------------------------------------------------------------------------
(* Properties of the returned entries *)

\* C27: in every entry generate_plan builds and returns, schedule_status
\* "Conflict!" implies a non-empty conflicting_tasks, a non-empty
\* conflicting_tasks implies schedule_status "Conflict!" or "Error", and an
\* entry with status On Time, Late or Overdue has an empty conflicting_tasks.
C27_StatusMatchesConflicts ==
    \A e \in Range(final_schedule) \cup Range(result) :
        /\ e.schedule_status = "Conflict!" => e.conflicting_tasks # <<>>
        /\ e.conflicting_tasks # <<>> => e.schedule_status \in {"Conflict!", "Error"}
        /\ e.schedule_status \in {"On Time", "Late", "Overdue"}
              => e.conflicting_tasks = <<>>

\* C27 witness: the returned list holds an open task without due date that
\* kept the key it found, with status "Error", and the overdue task it
\* overlaps, with status "Conflict!"
C27_Witness ==
    /\ pc = "done"
    /\ \E i \in 1..Len(result), j \in 1..Len(result) :
          /\ result[i].schedule_status = "Error"
          /\ result[i].conflicting_tasks # <<>>
          /\ result[i].due_date = NoDate
          /\ result[j].schedule_status = "Conflict!"
          /\ result[j].due_date < today

-----------------------------------------------------------------------------
(* Properties of empty filter values *)

\* the configuration without its keys that are present but empty
WithoutEmptyKeys(flt) ==
    LET List(f) == IF f.present /\ f.items = {} THEN NoSet ELSE f
        Date(f) == IF f.present /\ f.value = NoDate THEN NoBound ELSE f
    IN  [flt EXCEPT !.resource = List(@), !.priority = List(@),
                    !.task_status = List(@), !.customers = List(@),
                    !.schedule_status = List(@),
                    !.from_start_date = Date(@), !.to_end_date = Date(@)]

\* every key of the configuration is absent or empty
AllEmptyOrAbsent ==
    /\ \A f \in {filters.resource, filters.priority, filters.task_status,
                 filters.customers, filters.schedule_status} :
          f.present => f.items = {}
    /\ \A f \in {filters.from_start_date, filters.to_end_date} :
          f.present => f.value = NoDate
    /\ ~filters.conflict.present

\* C28: a filter key that is present but empty imposes no constraint: the
\* call returns what it returns without the empty keys (an empty allow-list
\* for resource, priority, task_status, customers or schedule_status, an
\* empty string for from_start_date or to_end_date), and when every key is
\* absent or empty no task and no entry is removed.
C28_EmptyIsNoConstraint ==
    /\ pc = "done" =>
          result = generate_plan(data, sort_by, WithoutEmptyKeys(filters), today)
    /\ (Sorted /\ AllEmptyOrAbsent) => Len(all_tasks) = Cardinality(InputTasks)
    /\ (pc = "done" /\ AllEmptyOrAbsent) =>
          /\ result = final_schedule
          /\ Len(result) = Cardinality(InputTasks)

\* C28 witness: under five empty allow-lists and two empty date strings the
\* call has returned an entry for every task
C28_Witness ==
    /\ pc = "done"
    /\ \A f \in {filters.resource, filters.priority, filters.task_status,
                 filters.customers, filters.schedule_status} :
          f.present /\ f.items = {}
    /\ \A f \in {filters.from_start_date, filters.to_end_date} :
          f.present /\ f.value = NoDate
    /\ Len(result) = 2
    /\ \E i \in 1..Len(result) : result[i].fix_version_date # NoDate

-----------------------------------------------------------------------------
(* fetch_jira_issues.py: transform_jira_to_planner_format, lines 169-265 *)

MaxIssues == 2    \* jira_issues holds at most MaxIssues items

\* an item of jira_issues that is not a dict
NonDict == [is_dict |-> FALSE]

\* line 262: sorted(...) of a set of strings
RECURSIVE SortedStrings(_)
SortedStrings(strings) ==
    IF strings = {} THEN <<>>
    ELSE LET least == CHOOSE s \in strings :
                         \A t \in strings : StrRank(s) <= StrRank(t)
         IN  <<least>> \o SortedStrings(strings \ {least})

\* lines 187-191, 250: the resource of the issue
AssigneeOrUnassigned(issue) ==
    IF Truthy(issue.assignee) THEN issue.assignee ELSE "Unassigned"

\* the customers of the issue exactly as listed
IssueCustomersAsListed(issue) == issue.customers

\* lines 193-195: the customers of the issue, the default customer when the
\* list is empty
IssueCustomers(issue) ==
    IF issue.customers = <<>> THEN <<"Unassigned Customer">>
    ELSE issue.customers

\* lines 217-260: the task of the issue (its name and assignee; the dates,
\* the status and the copied fields are left out)
JiraTask(issue) ==
    [name |-> IF Truthy(issue.key) THEN issue.key ELSE "N/A",
     assignee |-> AssigneeOrUnassigned(issue)]

\* lines 204-215, 244: the task is appended to the first packet named
\* "Jira Issues", which is created at the end of the list when there is none
AppendToJiraIssues(work_packets, task) ==
    IF \E w \in 1..Len(work_packets) : work_packets[w].name = "Jira Issues"
    THEN LET first == CHOOSE w \in 1..Len(work_packets) :
                        /\ work_packets[w].name = "Jira Issues"
                        /\ \A v \in 1..(w - 1) :
                              work_packets[v].name # "Jira Issues"
         IN  [work_packets EXCEPT ![first].tasks = Append(@, task)]
    ELSE Append(work_packets, [name |-> "Jira Issues", tasks |-> <<task>>])

\* lines 198-215, 244: one pass of the loop over issue_customers; customer_map
\* is an insertion-ordered dict, here the sequence of its values
AddCustomerTask(customer_map, customer_name, task) ==
    LET known == \E c \in 1..Len(customer_map) :
                    customer_map[c].name = customer_name
        map == IF known THEN customer_map
               ELSE Append(customer_map, [name |-> customer_name,
                                          work_packets |-> <<>>])
    IN  [c \in 1..Len(map) |->
            IF map[c].name = customer_name
            THEN [map[c] EXCEPT
                    !.work_packets = AppendToJiraIssues(@, task)]
            ELSE map[c]]

\* lines 197-260: the loop over issue_customers
RECURSIVE AddIssueTasks(_, _, _)
AddIssueTasks(customer_map, issue_customers, task) ==
    IF issue_customers = <<>> THEN customer_map
    ELSE AddIssueTasks(AddCustomerTask(customer_map, Head(issue_customers),
                                       task),
                       Tail(issue_customers), task)

\* lines 181-265: the loop over jira_issues and the returned planner_data
RECURSIVE TransformIssues(_, _, _)
TransformIssues(issues, customer_map, all_assignees) ==
    IF issues = <<>>
    THEN [resources |-> SortedStrings(all_assignees),
          customers |-> customer_map]
    ELSE LET issue == Head(issues)
         IN  IF ~issue.is_dict
             THEN TransformIssues(Tail(issues), customer_map, all_assignees)
             ELSE TransformIssues(
                      Tail(issues),
                      AddIssueTasks(customer_map, IssueCustomers(issue),
                                    JiraTask(issue)),
                      all_assignees \cup {AssigneeOrUnassigned(issue)})

transform_jira_to_planner_format(issues) == TransformIssues(issues, <<>>, {})

\* fetch_jira_issues.py line 385:
\* planner_data = transform_jira_to_planner_format(formatted_issues)
TransformJiraToPlannerFormat ==
    /\ fetch_pc = "formatted"
    /\ planner_data' = transform_jira_to_planner_format(jira_issues)
    /\ fetch_pc' = "transformed"
    /\ UNCHANGED <<jira_issues, planVars, pipelineVars, calendarVars>>

NextFetch == TransformJiraToPlannerFormat

\* the customers lists of the formatted issues
CustomerLists ==
    {<<>>, <<"CustA">>, <<"CustB">>, <<"CustA", "CustB">>,
     <<"CustB", "CustA">>}

\* the items of jira_issues: formatted issues and one item that is no dict
JiraIssues ==
    {NonDict} \cup
    { [is_dict |-> TRUE, key |-> k, assignee |-> a, customers |-> c] :
        k \in {"K1", "K2"}, a \in {"R1", "R2", Null}, c \in CustomerLists }

JiraIssueLists == UNION { [1..n -> JiraIssues] : n \in 0..MaxIssues }

InitFetch ==
    /\ data = [resources |-> <<>>, customers |-> <<>>]
    /\ sort_by = <<>>
    /\ filters = NoFilters
    /\ today = 1
    /\ pending = 0
    /\ pc = "idle"
    /\ all_tasks = <<>>
    /\ resource_index = NoIndex
    /\ final_schedule = <<>>
    /\ post_filtered_schedule = <<>>
    /\ result = <<>>
    /\ prev_result = <<>>
    /\ calls = 0
    /\ RESOURCE_ALIASES = NoAliases
    /\ CUSTOMER_ALIASES = NoAliases
    /\ invocations = <<>>
    /\ fetch_pc = "formatted"
    /\ jira_issues \in JiraIssueLists
    /\ planner_data = [resources |-> <<>>, customers |-> <<>>]
    /\ calendar_events = <<>>
    /\ raw_issues = <<>>
    /\ PS_SUMMARY_FILTER = "None"
    /\ log_pc = "<not called>"
    /\ customer_tickets = <<>>
    /\ event_index = 0
    /\ logged_count = 0
    /\ skipped_count = 0
    /\ error_count = 0
    /\ posted = <<>>

SpecFetch == InitFetch /\ [][NextFetch]_vars

-----------------------------------------------------------------------------
(* Properties of transform_jira_to_planner_format *)

\* the formatted issue names the customer: the customer is in its customers
\* list, or the list is empty and the customer is the default one
NamesCustomer(issue, customer_name) ==
    /\ issue.is_dict
    /\ IF issue.customers = <<>> THEN customer_name = "Unassigned Customer"
       ELSE customer_name \in Range(issue.customers)

\* one task for each formatted issue that names the customer
TasksNaming(customer_name) ==
    LET naming == SelectSeq(jira_issues,
                            LAMBDA issue : NamesCustomer(issue, customer_name))
    IN  [k \in 1..Len(naming) |->
            [name |-> naming[k].key,
             assignee |-> IF naming[k].assignee = Null THEN "Unassigned"
                          ELSE naming[k].assignee]]

\* C29: transform_jira_to_planner_format emits, for each formatted issue, one
\* task under the single "Jira Issues" work packet of each customer named in
\* the issue's customers list (under "Unassigned Customer" when the list is
\* empty), and the returned resources list is sorted, free of duplicates and
\* contains the assignee of every emitted task ("Unassigned" for an issue
\* without assignee).
C29_OneTaskPerIssueAndCustomer ==
    fetch_pc = "transformed" =>
        LET customers == planner_data.customers
            resources == planner_data.resources
        IN  /\ \A c, d \in 1..Len(customers) :
                  customers[c].name = customers[d].name => c = d
            /\ \A c \in 1..Len(customers) :
                  /\ Len(customers[c].work_packets) = 1
                  /\ customers[c].work_packets[1].name = "Jira Issues"
                  /\ customers[c].work_packets[1].tasks =
                        TasksNaming(customers[c].name)
                  /\ \A t \in 1..Len(customers[c].work_packets[1].tasks) :
                        customers[c].work_packets[1].tasks[t].assignee
                            \in Range(resources)
            /\ \A name \in {"CustA", "CustB", "Unassigned Customer"} :
                  TasksNaming(name) # <<>> =>
                      \E c \in 1..Len(customers) : customers[c].name = name
            /\ \A r \in 1..(Len(resources) - 1) :
                  StrRank(resources[r]) < StrRank(resources[r + 1])

\* C29 witness: an issue without customers and without assignee and an issue
\* of two customers have been transformed into three customers with one task
\* each and two resources
C29_Witness ==
    /\ fetch_pc = "transformed"
    /\ Len(jira_issues) = 2
    /\ jira_issues[1].is_dict /\ jira_issues[2].is_dict
    /\ jira_issues[1].customers = <<>> /\ jira_issues[1].assignee = Null
    /\ jira_issues[2].customers = <<"CustB", "CustA">>
    /\ jira_issues[2].assignee = "R2"
    /\ Len(planner_data.customers) = 3
    /\ planner_data.customers[1].name = "Unassigned Customer"
    /\ planner_data.resources = <<"R2", "Unassigned">>

-----------------------------------------------------------------------------
(* planner.py: log_work_from_calendar, lines 925-1116 *)

MaxEvents == 2    \* calendar_events holds at most MaxEvents events

\* str.lower() of the words the model uses
Lower(x) ==
    CASE x = "CustA" -> "custa"
      [] x = "CustB" -> "custb"
      [] x = "PS" -> "ps"
      [] OTHER -> x

\* `needle.lower() in text.lower()` and re.search(needle, text,
\* re.IGNORECASE): a text is the sequence of its words
ContainsIgnoringCase(text, needle) ==
    \E w \in 1..Len(text) : Lower(text[w]) = Lower(needle)

\* lines 977-980: the issue passes the summary filter
PassesSummaryFilter(issue, summary_filter) ==
    Truthy(summary_filter) =>
        ContainsIgnoringCase(issue.fields.summary, summary_filter)

\* lines 986-991: customer_tickets[customer_name].append(ticket) on a
\* defaultdict(list), here the sequence of its items in insertion order
AppendTicket(tickets_of, customer_name, ticket) ==
    IF \E c \in 1..Len(tickets_of) : tickets_of[c].name = customer_name
    THEN [c \in 1..Len(tickets_of) |->
            IF tickets_of[c].name = customer_name
            THEN [tickets_of[c] EXCEPT !.tickets = Append(@, ticket)]
            ELSE tickets_of[c]]
    ELSE Append(tickets_of, [name |-> customer_name, tickets |-> <<ticket>>])

\* lines 983-991: the loop over the customers of one issue
RECURSIVE AppendTickets(_, _, _)
AppendTickets(tickets_of, customers_field, ticket) ==
    IF customers_field = <<>> THEN tickets_of
    ELSE AppendTickets(AppendTicket(tickets_of, Head(customers_field), ticket),
                       Tail(customers_field), ticket)

\* lines 970-991: the customer -> tickets mapping of the issues
RECURSIVE CustomerTickets(_, _, _)
CustomerTickets(issues, summary_filter, tickets_of) ==
    IF issues = <<>> THEN tickets_of
    ELSE LET issue == Head(issues)
         IN  IF ~PassesSummaryFilter(issue, summary_filter)
             THEN CustomerTickets(Tail(issues), summary_filter, tickets_of)
             ELSE CustomerTickets(
                      Tail(issues), summary_filter,
                      AppendTickets(tickets_of, issue.fields.customfield_10080,
                                    [key |-> issue.key, issue |-> issue]))

\* lines 1015-1019: the position in customer_tickets of the first customer
\* whose name the title contains, 0 when there is none
MatchedCustomer(title, tickets_of) ==
    IF \E c \in 1..Len(tickets_of) :
          ContainsIgnoringCase(title, tickets_of[c].name)
    THEN CHOOSE c \in 1..Len(tickets_of) :
            /\ ContainsIgnoringCase(title, tickets_of[c].name)
            /\ \A b \in 1..(c - 1) :
                  ~ContainsIgnoringCase(title, tickets_of[b].name)
    ELSE 0

\* datetime.strptime(f"{date} {time}", "%Y-%m-%d %H:%M") succeeds
ParsesAsTime(time) == time \in {"10:00", "11:00"}

\* no worklog of the snapshot is found
NeverLogged(issue_data, date) == FALSE

\* lines 1046-1055: a worklog of the snapshot has the date in its started
\* field
AlreadyLogged(issue_data, date) ==
    \E w \in 1..Len(issue_data.fields.worklog) :
        issue_data.fields.worklog[w].started.date = date

\* lines 1005-1108: one pass of the loop: the counter the event goes to and
\* the requests.post calls it makes
EventOutcome(event, tickets_of, response) ==
    LET matched_customer == MatchedCustomer(event.title, tickets_of)
        NoPost(counter) == [counter |-> counter, posts |-> <<>>]
    IN  IF matched_customer = 0 THEN NoPost("skipped")
        ELSE IF tickets_of[matched_customer].tickets = <<>>
        THEN NoPost("skipped")
        ELSE LET ticket == tickets_of[matched_customer].tickets[1]
                 post == [ticket_key |-> ticket.key, date |-> event.date,
                          start_time |-> event.start_time,
                          title |-> event.title]
             IN  IF event.start_time # "All Day" /\ event.end_time # "All Day"
                 THEN IF ~ParsesAsTime(event.start_time)
                         \/ ~ParsesAsTime(event.end_time)
                      THEN NoPost("error")
                      ELSE IF AlreadyLogged(ticket.issue, event.date)
                      THEN NoPost("skipped")
                      ELSE IF response.raised
                      THEN [counter |-> "error", posts |-> <<post>>]
                      ELSE IF response.status_code = 201
                      THEN [counter |-> "logged", posts |-> <<post>>]
                      ELSE [counter |-> "error", posts |-> <<post>>]
                 ELSE NoPost("skipped")

\* the outcomes of requests.post: a response, or an exception
PostResponses ==
    {[raised |-> FALSE, status_code |-> 201],
     [raised |-> FALSE, status_code |-> 400],
     [raised |-> TRUE, status_code |-> 0]}

\* lines 961-963: no calendar events, the function returns
ReturnNoEvents ==
    /\ log_pc = "loaded"
    /\ calendar_events = <<>>
    /\ log_pc' = "returned"
    /\ UNCHANGED <<calendar_events, raw_issues, PS_SUMMARY_FILTER,
                   customer_tickets, event_index, logged_count, skipped_count,
                   error_count, posted, planVars, pipelineVars, fetchVars>>

\* lines 965-1002: the mapping is built and the counters are set to zero
BuildCustomerTickets ==
    /\ log_pc = "loaded"
    /\ calendar_events # <<>>
    /\ customer_tickets' = CustomerTickets(raw_issues, PS_SUMMARY_FILTER, <<>>)
    /\ logged_count' = 0
    /\ skipped_count' = 0
    /\ error_count' = 0
    /\ log_pc' = "events"
    /\ UNCHANGED <<calendar_events, raw_issues, PS_SUMMARY_FILTER, event_index,
                   posted, planVars, pipelineVars, fetchVars>>

\* lines 1004-1108: one pass of the loop over calendar_events
ProcessEvent ==
    /\ log_pc = "events"
    /\ event_index < Len(calendar_events)
    /\ \E response \in PostResponses :
          LET outcome == EventOutcome(calendar_events[event_index + 1],
                                      customer_tickets, response)
          IN  /\ logged_count' =
                    logged_count + IF outcome.counter = "logged" THEN 1 ELSE 0
              /\ skipped_count' =
                    skipped_count + IF outcome.counter = "skipped" THEN 1 ELSE 0
              /\ error_count' =
                    error_count + IF outcome.counter = "error" THEN 1 ELSE 0
              /\ posted' = posted \o outcome.posts
    /\ event_index' = event_index + 1
    /\ UNCHANGED <<calendar_events, raw_issues, PS_SUMMARY_FILTER, log_pc,
                   customer_tickets, planVars, pipelineVars, fetchVars>>

\* lines 1110-1116: the loop is over, the counters are printed
PrintSummary ==
    /\ log_pc = "events"
    /\ event_index = Len(calendar_events)
    /\ log_pc' = "summary"
    /\ UNCHANGED <<calendar_events, raw_issues, PS_SUMMARY_FILTER,
                   customer_tickets, event_index, logged_count, skipped_count,
                   error_count, posted, planVars, pipelineVars, fetchVars>>

NextCalendar ==
    \/ ReturnNoEvents
    \/ BuildCustomerTickets
    \/ ProcessEvent
    \/ PrintSummary

\* the saved calendar events: all-day, timed, and one without end_time
CalendarEvents ==
    { [title |-> t, date |-> d, start_time |-> times[1],
       end_time |-> times[2]] :
        t \in {<<"standup">>, <<"custa", "review">>,
               <<"CustB", "CustA", "sync">>},
        d \in 1..2,
        times \in {<<"All Day", "All Day">>, <<"10:00", "11:00">>,
                   <<"10:00", "">>} }

CalendarEventLists == UNION { [1..n -> CalendarEvents] : n \in 0..MaxEvents }

\* the worklogs of an issue of the snapshot
WorklogLists == {<<>>, <<[started |-> [date |-> 1, time |-> "09:00"]]>>}

\* the snapshots of raw Jira issues: a ticket of CustA, a ticket of CustB and
\* CustA whose summary the filter "PS" rejects, a ticket without customers
IssueSnapshots ==
    LET Issue(key, summary, customers, worklog) ==
            [key |-> key,
             fields |-> [summary |-> summary, customfield_10080 |-> customers,
                         worklog |-> worklog]]
    IN  { order[1] \o order[2] \o <<Issue("K3", <<"ps", "training">>, <<>>,
                                          <<>>)>> :
            order \in UNION {
                { << <<Issue("K1", <<"PS", "rollout">>, <<"CustA">>, w1)>>,
                     <<Issue("K2", <<"internal">>, <<"CustB", "CustA">>, w2)>> >>,
                  << <<Issue("K2", <<"internal">>, <<"CustB", "CustA">>, w2)>>,
                     <<Issue("K1", <<"PS", "rollout">>, <<"CustA">>, w1)>> >> } :
                w1 \in WorklogLists, w2 \in WorklogLists } }

InitCalendar ==
    /\ data = [resources |-> <<>>, customers |-> <<>>]
    /\ sort_by = <<>>
    /\ filters = NoFilters
    /\ today = 1
    /\ pending = 0
    /\ pc = "idle"
    /\ all_tasks = <<>>
    /\ resource_index = NoIndex
    /\ final_schedule = <<>>
    /\ post_filtered_schedule = <<>>
    /\ result = <<>>
    /\ prev_result = <<>>
    /\ calls = 0
    /\ RESOURCE_ALIASES = NoAliases
    /\ CUSTOMER_ALIASES = NoAliases
    /\ invocations = <<>>
    /\ fetch_pc = "<not called>"
    /\ jira_issues = <<>>
    /\ planner_data = [resources |-> <<>>, customers |-> <<>>]
    /\ calendar_events \in CalendarEventLists
    /\ raw_issues \in IssueSnapshots
    /\ PS_SUMMARY_FILTER \in {Null, "PS"}
    /\ log_pc = "loaded"
    /\ customer_tickets = <<>>
    /\ event_index = 0
    /\ logged_count = 0
    /\ skipped_count = 0
    /\ error_count = 0
    /\ posted = <<>>

SpecCalendar == InitCalendar /\ [][NextCalendar]_vars

-----------------------------------------------------------------------------
(* Properties of log_work_from_calendar *)

\* the issues of the snapshot that pass the summary filter and list a
\* customer whose name the title contains
TicketsNamedIn(title) ==
    { i \in 1..Len(raw_issues) :
        /\ PassesSummaryFilter(raw_issues[i], PS_SUMMARY_FILTER)
        /\ \E c \in 1..Len(raw_issues[i].fields.customfield_10080) :
              ContainsIgnoringCase(title,
                                   raw_issues[i].fields.customfield_10080[c]) }

\* the counters add up to the number of events processed
CountersCoverEvents ==
    /\ logged_count + skipped_count + error_count = event_index
    /\ log_pc \in {"summary", "returned"} => event_index = Len(calendar_events)

\* every post made is the post of a timed event whose title contains a known
\* customer name, to a ticket without worklog on the date of the event
PostedOnlyWhenDue ==
    \A p \in 1..Len(posted) :
        \E e \in 1..event_index :
            /\ calendar_events[e].title = posted[p].title
            /\ calendar_events[e].date = posted[p].date
            /\ calendar_events[e].start_time = posted[p].start_time
            /\ calendar_events[e].start_time # "All Day"
            /\ calendar_events[e].end_time # "All Day"
            /\ \E i \in TicketsNamedIn(calendar_events[e].title) :
                  /\ raw_issues[i].key = posted[p].ticket_key
                  /\ \A w \in 1..Len(raw_issues[i].fields.worklog) :
                        raw_issues[i].fields.worklog[w].started.date
                            # calendar_events[e].date

\* a pass of the loop adds one to exactly one counter, and nothing else
\* changes a counter
EventCountedOnce ==
    LET counted == <<logged_count' - logged_count,
                     skipped_count' - skipped_count,
                     error_count' - error_count>>
    IN  IF event_index' = event_index + 1
        THEN counted \in {<<1, 0, 0>>, <<0, 1, 0>>, <<0, 0, 1>>}
        ELSE counted = <<0, 0, 0>>

\* C30: in one run of log_work_from_calendar every calendar event is counted
\* in exactly one of logged, skipped or errors (their sum equals the number
\* of events), and a worklog is posted only for a timed (not all-day) event
\* whose title contains a known customer name and whose matched ticket has,
\* in the loaded issue snapshot, no worklog whose started field contains the
\* event's date.
C30_CountedOncePostedWhenDue ==
    /\ [](CountersCoverEvents /\ PostedOnlyWhenDue)
    /\ [][EventCountedOnce]_vars

\* C30 witness: of two timed meetings with CustA the one on a day without
\* worklog was posted and logged, the one on the day of a worklog was skipped
C30_Witness ==
    /\ log_pc = "summary"
    /\ Len(calendar_events) = 2
    /\ \A e \in 1..2 :
          /\ calendar_events[e].title = <<"custa", "review">>
          /\ calendar_events[e].start_time = "10:00"
          /\ calendar_events[e].end_time = "11:00"
    /\ calendar_events[1].date = 2 /\ calendar_events[2].date = 1
    /\ logged_count = 1 /\ skipped_count = 1 /\ error_count = 0
    /\ Len(posted) = 1 /\ posted[1].ticket_key = "K1" /\ posted[1].date = 2
====
